---- MODULE Spec2Model ----
(***************************************************************************)
(* Model of scraper_app: the per-folder record store                       *)
(* (storage/game_folders.py) and the scrape loop (scrape/orchestrator.py). *)
(*                                                                         *)
(* Python strings are sequences of character codes (ASCII), so that        *)
(* str.strip(), string comparison and sorting are computed, not assumed.   *)
(* A JSON object is a function from a set of keys (its DOMAIN) to values;  *)
(* a key the object does not have is simply not in the DOMAIN.             *)
(***************************************************************************)
EXTENDS Integers, Sequences, FiniteSets, TLC

VARIABLES
    json,        \* content of <folder>/url.json
    tmp,         \* content of <folder>/url.json.tmp
    now,         \* the wall clock, in days
    lastOp,      \* the last store call that may write, with its arguments
    repeat,      \* lastOp repeats the call before it, arguments included
    pre,         \* content of url.json when lastOp started
    readResult,  \* the read_observation made since lastOp, if any
    wpc,         \* where a write in progress stands in _write_url_json_atomic
    pending,     \* the object that write is serialising
    items,       \* scrape_all: the coerced input list
    progress_cb, \* scrape_all: was a progress callback passed
    item_idx,    \* scrape_all: idx, the 1-based position in items
    pc,          \* scrape_all: where the loop stands
    outcome,     \* scrape_all: what scrape_one returned for the item
    locals,      \* scrape_all: version, clean_title, ... of the item
    change_status, \* scrape_all: the local of that name, Unbound if unset
    invoked,     \* scrape_all: store functions called for the item
    results,     \* scrape_all: the rows appended so far
    calls,       \* scrape_all: the progress_cb calls made so far
    raised,      \* scrape_all: the exception that left it, if any
    faulted,     \* scrape_all: store calls of the item that raised
    runs,        \* concurrent runs writing one record: each run's position
    ui,          \* ScrapeApp: the worker and the executor threads
    library,     \* the game folders under active_root, in rglob order
    call         \* a helper function applied on its own: arguments and result

storeVars == <<json, tmp, now, lastOp, repeat, pre, readResult>>
writeVars == <<wpc, pending>>
scrapeVars == <<items, progress_cb, item_idx, pc, outcome, locals,
                change_status, invoked, results, calls, raised, faulted>>
concVars == <<runs, ui, library>>

vars == <<storeVars, writeVars, scrapeVars, concVars, call>>

----------------------------------------------------------------------------
(* Bounds *)

StartNow == 400      \* the day the run starts
MaxNow == 401        \* the clock stops here
MaxItems == 2        \* longest input list of scrape_all
MaxRefreshes == 3    \* how often the user asks for a refresh

(* Program constants *)

DISCOVERED_PRUNE_DAYS == 10
RECENT_DAYS == 21
ABANDONED_DAYS == 365

----------------------------------------------------------------------------
(* Strings *)

EmptyStr == <<>>

\* Python's str < str: lexicographic by code point, a proper prefix is smaller.
RECURSIVE StrLess(_, _)
StrLess(a, b) ==
    IF b = <<>> THEN FALSE
    ELSE IF a = <<>> THEN TRUE
    ELSE IF a[1] # b[1] THEN a[1] < b[1]
    ELSE StrLess(Tail(a), Tail(b))

\* what str.strip() and the regex class \s take for whitespace
Whitespace == {9, 10, 11, 12, 13, 32}

IsSpace(c) == c \in Whitespace

RECURSIVE LStrip(_)
LStrip(s) == IF s # <<>> /\ IsSpace(s[1]) THEN LStrip(Tail(s)) ELSE s

RECURSIVE RStrip(_)
RStrip(s) ==
    IF s # <<>> /\ IsSpace(s[Len(s)]) THEN RStrip(SubSeq(s, 1, Len(s) - 1)) ELSE s

\* utils.normalize_url: url.strip()
normalize_url(url) == RStrip(LStrip(url))

IsDigit(c) == c \in 48..57

\* strftime of the clock: a fixed-width, zero-padded rendering of the day.
_now_iso_z(t) ==
    <<48 + ((t \div 100) % 10), 48 + ((t \div 10) % 10), 48 + (t % 10)>>

\* datetime.fromisoformat: the day a well-formed timestamp denotes, or
\* Unparseable (the ValueError branch) for anything else.
Unparseable == -1
fromisoformat(s) ==
    IF Len(s) = 3 /\ IsDigit(s[1]) /\ IsDigit(s[2]) /\ IsDigit(s[3])
    THEN (s[1] - 48) * 100 + (s[2] - 48) * 10 + (s[3] - 48)
    ELSE Unparseable

----------------------------------------------------------------------------
(* JSON objects *)

EmptyDict == [k \in {} |-> TRUE]

Get(d, k, default) == IF k \in DOMAIN d THEN d[k] ELSE default

Put(d, k, v) == [x \in (DOMAIN d) \cup {k} |-> IF x = k THEN v ELSE d[x]]

\* dict.setdefault
SetDefault(d, k, v) == IF k \in DOMAIN d THEN d ELSE Put(d, k, v)

(* File contents: absent, a complete JSON document, or bytes that do not   *)
(* parse (a truncated or hand-damaged file).                               *)
Absent == [kind |-> "absent", data |-> EmptyDict]
Complete(data) == [kind |-> "json", data |-> data]
Unreadable(data) == [kind |-> "bad", data |-> data]

\* exists answering yes for a path that has no file
existsAlways(c) == TRUE

exists(c) == c.kind # "absent"

_load_url_json(c) == IF c.kind = "json" THEN c.data ELSE EmptyDict

----------------------------------------------------------------------------
(* Sorting *)

\* sorted(): the strings of S in ascending order.
RECURSIVE SortStrs(_)
SortStrs(S) ==
    IF S = {} THEN <<>>
    ELSE LET m == CHOOSE y \in S : \A z \in S \ {y} : StrLess(y, z)
         IN <<m>> \o SortStrs(S \ {m})

\* json.dumps(..., sort_keys=True) followed by json.loads: the object comes
\* back with its keys in sorted order.  The only object whose key order the
\* program depends on is "observations", kept as a sequence of slots.
SortKeys(data) ==
    IF "observations" \notin DOMAIN data THEN data
    ELSE LET obs == data["observations"]
             slotOf(s) == CHOOSE i \in DOMAIN obs : obs[i].source = s
             order == SortStrs({obs[i].source : i \in DOMAIN obs})
         IN Put(data, "observations",
                [i \in DOMAIN order |-> obs[slotOf(order[i])]])

\* _write_url_json_atomic, seen from outside the call: tmp is written in
\* full and then replaces path, so path holds the serialised data.
_write_url_json_atomic(data) == Complete(SortKeys(data))

----------------------------------------------------------------------------
(* merge_discovered_links *)

\* lines 201-205: the normalised manual links
manual_set(data) ==
    LET manual == Get(data, "manual", EmptyDict)
        links == Get(manual, "links", <<>>)
    IN {normalize_url(links[i]) : i \in DOMAIN links} \ {EmptyStr}

\* lines 207-220: the ledger indexed by normalised url; a later duplicate
\* replaces an earlier one.
BuildIdx(data) ==
    LET discovered == Get(data, "discovered", <<>>)
        urls == {normalize_url(discovered[i].url) : i \in DOMAIN discovered}
                    \ {EmptyStr}
        lastOf(u) == CHOOSE i \in DOMAIN discovered :
                        /\ normalize_url(discovered[i].url) = u
                        /\ \A j \in DOMAIN discovered :
                              normalize_url(discovered[j].url) = u => j <= i
    IN [u \in urls |-> [discovered[lastOf(u)] EXCEPT !.url = u]]

\* lines 222-229: incoming links, normalised, without empties or repeats.
\* The loop over them treats each url on its own, so their order is not kept.
Incoming(discovered_links) ==
    {normalize_url(discovered_links[i]) : i \in DOMAIN discovered_links}
        \ {EmptyStr}

\* Observed without the skip of line 235: manual links are taken too
ObservedAll(data, discovered_links) == Incoming(discovered_links)

\* line 235: the incoming urls the loop does not skip
Observed(data, discovered_links) ==
    Incoming(discovered_links) \ manual_set(data)

\* MergeIdx leaving an entry that is already indexed as it is (no bump)
MergeIdxNoBump(data, discovered_links, source, t) ==
    LET idx == BuildIdx(data)
        seen == Observed(data, discovered_links)
        now_iso == _now_iso_z(t)
    IN [u \in (DOMAIN idx) \cup seen |->
          IF u \in DOMAIN idx THEN idx[u]
          ELSE [url |-> u, source |-> source,
                first_seen |-> now_iso, last_seen |-> now_iso]]

\* MergeIdx taking the insert branch of line 244 for a url already indexed
MergeIdxReinserts(data, discovered_links, source, t) ==
    LET idx == BuildIdx(data)
        seen == Observed(data, discovered_links)
        now_iso == _now_iso_z(t)
    IN [u \in (DOMAIN idx) \cup seen |->
          IF u \notin seen THEN idx[u]
          ELSE [url |-> u, source |-> source,
                first_seen |-> now_iso, last_seen |-> now_iso]]

\* lines 234-250: bump or insert every observed url
MergeIdx(data, discovered_links, source, t) ==
    LET idx == BuildIdx(data)
        seen == Observed(data, discovered_links)
        now_iso == _now_iso_z(t)
    IN [u \in (DOMAIN idx) \cup seen |->
          IF u \notin seen THEN idx[u]
          ELSE IF u \in DOMAIN idx
          THEN [idx[u] EXCEPT
                   !.last_seen = now_iso,
                   !.source = IF source # EmptyStr /\ @ = EmptyStr
                              THEN source ELSE @]
          ELSE [url |-> u, source |-> source,
                first_seen |-> now_iso, last_seen |-> now_iso]]

\* Keeps with the except branch dropping the entry instead of keeping it
KeepsParsedOnly(entry, t) ==
    LET cutoff == t - DISCOVERED_PRUNE_DAYS
        dt == fromisoformat(entry.last_seen)
    IN dt # Unparseable /\ dt >= cutoff

\* lines 252-263: does the prune loop keep this entry?
Keeps(entry, t) ==
    LET cutoff == t - DISCOVERED_PRUNE_DAYS
        dt == fromisoformat(entry.last_seen)
    IN dt = Unparseable \/ dt >= cutoff

\* Kept with the sort of line 267 turned round
KeptDescending(idx, t) ==
    LET keep == {u \in DOMAIN idx : Keeps(idx[u], t)}
        order == SortStrs(keep)
    IN [i \in DOMAIN order |-> idx[order[Len(order) + 1 - i]]]

\* lines 253-267: the kept entries, sorted by url
Kept(idx, t) ==
    LET keep == {u \in DOMAIN idx : Keeps(idx[u], t)}
        order == SortStrs(keep)
    IN [i \in DOMAIN order |-> idx[order[i]]]

\* Changed without the early return of line 269: every call writes
ChangedAlways(data, discovered_links, source, t) == TRUE

\* the flag "changed" at line 269
Changed(data, discovered_links, source, t) ==
    LET idx == MergeIdx(data, discovered_links, source, t)
    IN \/ Observed(data, discovered_links) # {}
       \/ \E u \in DOMAIN idx : ~Keeps(idx[u], t)

\* MergeData taking the else branch of line 277 for every record: manual is
\* replaced by the empty default
MergeDataResetsManual(data, discovered_links, source, t) ==
    LET d1 == SetDefault(SetDefault(data, "game_id", EmptyStr), "status", "")
        d2 == Put(d1, "manual", [links |-> <<>>, source_file |-> ""])
        d3 == Put(d2, "discovered",
                  Kept(MergeIdx(data, discovered_links, source, t), t))
    IN Put(d3, "updated_at", _now_iso_z(t))

\* lines 272-281: the object handed to _write_url_json_atomic
MergeData(data, discovered_links, source, t) ==
    LET d1 == SetDefault(SetDefault(data, "game_id", EmptyStr), "status", "")
        d2 == IF "manual" \in DOMAIN d1
              THEN Put(d1, "manual",
                       SetDefault(SetDefault(d1["manual"], "links", <<>>),
                                  "source_file", ""))
              ELSE Put(d1, "manual", [links |-> <<>>, source_file |-> ""])
        d3 == Put(d2, "discovered",
                  Kept(MergeIdx(data, discovered_links, source, t), t))
    IN Put(d3, "updated_at", _now_iso_z(t))

\* merge_discovered_links: the content of url.json after the call
merge_discovered_links(c, discovered_links, source, t) ==
    IF ~exists(c) THEN c
    ELSE LET data == _load_url_json(c)
         IN IF ~Changed(data, discovered_links, source, t) THEN c
            ELSE _write_url_json_atomic(
                     MergeData(data, discovered_links, source, t))

----------------------------------------------------------------------------
(* read_observation / update_observations_latest *)

NoSlot == [source |-> EmptyStr, version |-> EmptyStr,
           last_update_iso |-> EmptyStr]

\* read_observation answering with some other source's slot when the
\* requested one is missing
read_observationAnySlot(c, source) ==
    IF ~exists(c) THEN <<EmptyStr, EmptyStr>>
    ELSE LET data == _load_url_json(c)
             obs == Get(data, "observations", <<>>)
             hit == {i \in DOMAIN obs : obs[i].source = source}
         IN IF obs = <<>> THEN <<EmptyStr, EmptyStr>>
            ELSE LET entry == obs[CHOOSE i \in DOMAIN obs :
                                     hit # {} => i \in hit]
                 IN <<entry.version, entry.last_update_iso>>

\* read_observation: (version, last_update_iso) of observations[source]
read_observation(c, source) ==
    IF ~exists(c) THEN <<EmptyStr, EmptyStr>>
    ELSE LET data == _load_url_json(c)
             obs == Get(data, "observations", <<>>)
             hit == {i \in DOMAIN obs : obs[i].source = source}
         IN IF hit = {} THEN <<EmptyStr, EmptyStr>>
            ELSE LET entry == obs[CHOOSE i \in hit : TRUE]
                 IN <<entry.version, entry.last_update_iso>>

\* SetSlot starting from an empty observations object
SetSlotAlone(observations, source, version, last_update_iso) ==
    <<[source |-> source, version |-> version,
       last_update_iso |-> last_update_iso]>>

\* SetSlot that leaves a slot that is already there as it is
SetSlotIfNew(observations, source, version, last_update_iso) ==
    LET slot == [source |-> source, version |-> version,
                 last_update_iso |-> last_update_iso]
        hit == {i \in DOMAIN observations : observations[i].source = source}
    IN IF hit = {} THEN Append(observations, slot) ELSE observations

\* line 333: observations[source] = {...}; a new key goes last, an old key
\* keeps its place.
SetSlot(observations, source, version, last_update_iso) ==
    LET slot == [source |-> source, version |-> version,
                 last_update_iso |-> last_update_iso]
        hit == {i \in DOMAIN observations : observations[i].source = source}
    IN IF hit = {} THEN Append(observations, slot)
       ELSE [i \in DOMAIN observations |->
                IF i \in hit THEN slot ELSE observations[i]]

\* Better with the comparison turned round
BetterOlder(iso, best_iso) == best_iso = EmptyStr \/ StrLess(iso, best_iso)

\* line 352: does this slot replace the best so far?
Better(iso, best_iso) == best_iso = EmptyStr \/ StrLess(best_iso, iso)

\* lines 338-355: scan of the slots in iteration order
RECURSIVE BestSlot(_, _)
BestSlot(observations, best) ==
    IF observations = <<>> THEN best
    ELSE LET obs == Head(observations)
         IN BestSlot(Tail(observations),
                     IF obs.last_update_iso # EmptyStr
                        /\ Better(obs.last_update_iso, best.last_update_iso)
                     THEN obs ELSE best)

\* lines 325-373: the object handed to _write_url_json_atomic
UpdateData(data, source, version, last_update_iso, t) ==
    LET observations == SetSlot(Get(data, "observations", <<>>),
                                source, version, last_update_iso)
        best == BestSlot(observations, NoSlot)
        d1 == Put(data, "observations", observations)
        d2 == IF best.last_update_iso # EmptyStr
              THEN Put(d1, "latest",
                       [source |-> best.source, version |-> best.version,
                        last_update_iso |-> best.last_update_iso,
                        computed_at |-> _now_iso_z(t)])
              ELSE SetDefault(d1, "latest", EmptyDict)
        d3 == SetDefault(SetDefault(d2, "game_id", EmptyStr), "status", "")
        d4 == SetDefault(d3, "manual", [links |-> <<>>, source_file |-> ""])
    IN Put(d4, "updated_at", _now_iso_z(t))

\* update_observations_latest: the content of url.json after the call
update_observations_latest(c, source, version, last_update_iso, t) ==
    IF ~exists(c) THEN c
    ELSE _write_url_json_atomic(
             UpdateData(_load_url_json(c), source, version, last_update_iso, t))

----------------------------------------------------------------------------
(* Values the operations are called with *)

UrlA == <<97>>            \* "a"
UrlB == <<98>>            \* "b"
UrlM == <<109>>           \* "m", the manual link of the folder
PaddedB == <<32, 98, 32>> \* " b ", normalises to "b"

SrcF == <<102>>           \* "f"
SrcI == <<105>>           \* "i"
Sources == {SrcF, SrcI}

\* discovered_links arguments: nothing, a new link, a padded link next to
\* the manual one, a repeated link
LinkLists == {<<>>, <<UrlA>>, <<PaddedB, UrlM>>, <<UrlA, PaddedB, UrlA>>}

\* timestamps already in a record when the run starts
OldIso == _now_iso_z(StartNow - DISCOVERED_PRUNE_DAYS - 1)
EdgeIso == _now_iso_z(StartNow - DISCOVERED_PRUNE_DAYS)
BadIso == <<120>>         \* "x": not a timestamp

Versions == {EmptyStr, <<49>>}
Timestamps == {EmptyStr, OldIso, EdgeIso, BadIso}

(* Records on disk when the run starts *)

\* what _bootstrap_from_txt writes for a url.txt holding the one link "m"
BootData ==
    [game_id |-> UrlM, status |-> "Active Play",
     manual |-> [links |-> <<UrlM>>, source_file |-> "url.txt"],
     discovered |-> <<>>, observations |-> <<>>, latest |-> EmptyDict,
     updated_at |-> EdgeIso]

\* ledgers left by earlier runs: sorted by url, one entry per url
LedgerEntries(u, source) ==
    {<<>>} \cup {<<[url |-> u, source |-> source,
                   first_seen |-> OldIso, last_seen |-> ls]>> :
                 ls \in {OldIso, EdgeIso, BadIso}}

InitLedgers ==
    {a \o b : a \in LedgerEntries(UrlA, EmptyStr), b \in LedgerEntries(UrlB, SrcF)}

InitLedgerFiles ==
    {Complete([BootData EXCEPT !.discovered = d]) : d \in InitLedgers}
        \cup {Complete(EmptyDict), Unreadable(EmptyDict), Absent}

----------------------------------------------------------------------------
(* History *)

Op(name, source, version, iso, links, t, wrote) ==
    [name |-> name, source |-> source, version |-> version, iso |-> iso,
     links |-> links, at |-> t, wrote |-> wrote]

NoOp == Op("none", EmptyStr, EmptyStr, EmptyStr, <<>>, 0, FALSE)

NoRead == [fresh |-> FALSE, source |-> EmptyStr,
           value |-> <<EmptyStr, EmptyStr>>]

\* scrape_all is not running
Unbound == "<unbound>"

NoOutcome == [raw_title |-> EmptyStr, updated_iso |-> EmptyStr,
              pretty |-> EmptyStr, links |-> <<>>, err |-> ""]

NoLocals == [url |-> EmptyStr, src |-> EmptyStr, version |-> EmptyStr,
             clean_title |-> EmptyStr, updated_iso |-> EmptyStr,
             pretty |-> EmptyStr, links |-> <<>>, is_recent |-> Unbound]

NoScrape ==
    /\ items = <<>>
    /\ progress_cb = FALSE
    /\ item_idx = 0
    /\ pc = "off"
    /\ outcome = NoOutcome
    /\ locals = NoLocals
    /\ change_status = Unbound
    /\ invoked = <<>>
    /\ results = <<>>
    /\ calls = <<>>
    /\ raised = ""
    /\ faulted = {}

\* no concurrent runs, no UI
NoRuns == <<>>

NoUI == [mounted |-> FALSE, worker |-> "none", refreshes |-> 0,
         threads |-> <<>>]

\* no helper call is being looked at
NoCall == [fn |-> "none", a |-> EmptyStr, t |-> 0, done |-> FALSE,
           label |-> "", version |-> EmptyStr, title |-> EmptyStr]

NoConc ==
    /\ runs = NoRuns
    /\ ui = NoUI
    /\ library = <<>>
    /\ call = NoCall

SameCall(op, name, source, version, iso, links) ==
    /\ op.name = name /\ op.source = source /\ op.version = version
    /\ op.iso = iso /\ op.links = links

----------------------------------------------------------------------------
(* Store operations as steps *)

\* a call of merge_discovered_links
MergeDiscoveredLinks(discovered_links, source) ==
    /\ json' = merge_discovered_links(json, discovered_links, source, now)
    /\ lastOp' = Op("merge", source, EmptyStr, EmptyStr, discovered_links, now,
                    exists(json) /\ Changed(_load_url_json(json),
                                            discovered_links, source, now))
    /\ repeat' = SameCall(lastOp, "merge", source, EmptyStr, EmptyStr,
                          discovered_links)
    /\ pre' = json
    /\ readResult' = NoRead
    /\ UNCHANGED <<concVars, call>>
    /\ UNCHANGED <<tmp, now, writeVars, scrapeVars>>

\* a call of update_observations_latest
UpdateObservation(source, version, last_update_iso) ==
    /\ json' = update_observations_latest(json, source, version,
                                          last_update_iso, now)
    /\ lastOp' = Op("update", source, version, last_update_iso, <<>>, now,
                    exists(json))
    /\ repeat' = SameCall(lastOp, "update", source, version, last_update_iso,
                          <<>>)
    /\ pre' = json
    /\ readResult' = NoRead
    /\ UNCHANGED <<concVars, call>>
    /\ UNCHANGED <<tmp, now, writeVars, scrapeVars>>

\* a call of read_observation
ReadObservation(source) ==
    /\ readResult' = [fresh |-> TRUE, source |-> source,
                      value |-> read_observation(json, source)]
    /\ UNCHANGED <<concVars, call>>
    /\ UNCHANGED <<json, tmp, now, lastOp, repeat, pre, writeVars, scrapeVars>>

\* the user curates manual.links in url.json by hand: a link is added
UserAddsManualLink(u) ==
    /\ json.kind = "json"
    /\ "manual" \in DOMAIN json.data
    /\ u \notin manual_set(json.data)
    /\ json' = Complete(Put(json.data, "manual",
                   [json.data["manual"] EXCEPT !.links = Append(@, u)]))
    /\ lastOp' = Op("edit", EmptyStr, EmptyStr, EmptyStr, <<u>>, now, TRUE)
    /\ repeat' = FALSE
    /\ pre' = json
    /\ readResult' = NoRead
    /\ UNCHANGED <<concVars, call>>
    /\ UNCHANGED <<tmp, now, writeVars, scrapeVars>>

\* a day passes
Tick ==
    /\ now < MaxNow
    /\ now' = now + 1
    /\ UNCHANGED <<concVars, call>>
    /\ UNCHANGED <<json, tmp, lastOp, repeat, pre, readResult, writeVars>>
    /\ UNCHANGED <<items, progress_cb, item_idx, pc, outcome, locals,
                   change_status, invoked, results, calls, raised, faulted>>

----------------------------------------------------------------------------
(* The discovered-link ledger under merges *)

InitLinks ==
    /\ json \in InitLedgerFiles
    /\ tmp = Absent
    /\ now = StartNow
    /\ lastOp = NoOp
    /\ repeat = FALSE
    /\ pre = Absent
    /\ readResult = NoRead
    /\ wpc = "idle"
    /\ pending = EmptyDict
    /\ NoConc
    /\ NoScrape

NextLinks ==
    \/ \E l \in LinkLists, s \in Sources : MergeDiscoveredLinks(l, s)
    \/ \E u \in {UrlA, UrlB} : UserAddsManualLink(u)
    \/ Tick

SpecLinks == InitLinks /\ [][NextLinks]_vars

----------------------------------------------------------------------------
(* Properties of the ledger *)

Ledger(c) == Get(_load_url_json(c), "discovered", <<>>)

LedgerUrls(c) == {Ledger(c)[i].url : i \in DOMAIN Ledger(c)}

EntryFor(c, u) == Ledger(c)[CHOOSE i \in DOMAIN Ledger(c) : Ledger(c)[i].url = u]

UpdatedAt(c) == Get(_load_url_json(c), "updated_at", EmptyStr)

\* the call's links as the ledger would name them
Normalized(links) == {normalize_url(links[i]) : i \in DOMAIN links}

\* an entry of ledger c whose last_seen is older than the retention window at t
Expired(e, t) ==
    /\ fromisoformat(e.last_seen) # Unparseable
    /\ fromisoformat(e.last_seen) < t - DISCOVERED_PRUNE_DAYS

\* C3 as stated: the second of two identical merge_discovered_links calls in
\* a row performs no write and leaves updated_at unchanged.
C3_SecondMergeWritesNothing ==
    (lastOp.name = "merge" /\ repeat) =>
        (~lastOp.wrote /\ UpdatedAt(json) = UpdatedAt(pre))

\* C3 amended: the second of two identical merge_discovered_links calls in a
\* row inserts no entry and leaves url, source and first_seen of every entry
\* it keeps unchanged; it performs no write exactly when no incoming link is
\* outside manual.links and no entry has passed the retention window, and
\* then the record, updated_at included, is unchanged.
C3_SecondMergeOnlyRefreshes ==
    (lastOp.name = "merge" /\ repeat /\ exists(pre)) =>
        /\ LedgerUrls(json) \subseteq LedgerUrls(pre)
        /\ \A u \in LedgerUrls(json) :
              /\ EntryFor(json, u).source = EntryFor(pre, u).source
              /\ EntryFor(json, u).first_seen = EntryFor(pre, u).first_seen
        /\ lastOp.wrote <=>
              \/ (Normalized(lastOp.links) \ {EmptyStr})
                     \ manual_set(_load_url_json(pre)) # {}
              \/ \E u \in LedgerUrls(pre) : Expired(EntryFor(pre, u), lastOp.at)
        /\ ~lastOp.wrote => json = pre

\* C3 witness: a repeated merge of a non-manual link a day later rewrote
\* last_seen and updated_at.
C3_Witness ==
    /\ lastOp.name = "merge" /\ repeat /\ exists(pre)
    /\ lastOp.wrote
    /\ UpdatedAt(json) # UpdatedAt(pre)
    /\ UrlA \in LedgerUrls(pre)
    /\ EntryFor(json, UrlA).last_seen # EntryFor(pre, UrlA).last_seen

\* C4 as stated: after every merge_discovered_links call no ledger entry has
\* a url that is in manual.links.
C4_NoManualUrlInLedger ==
    (lastOp.name = "merge" /\ exists(json)) =>
        LedgerUrls(json) \cap manual_set(_load_url_json(json)) = {}

\* C5: after a merge_discovered_links call on an existing record, every entry
\* that was not re-observed and whose last_seen is older than the retention
\* window is gone, and every entry with an unparseable last_seen is present.
C5_PruneOldKeepUnparseable ==
    (lastOp.name = "merge" /\ exists(pre)) =>
        \A u \in LedgerUrls(pre) :
            LET e == EntryFor(pre, u)
            IN /\ (Expired(e, lastOp.at) /\ u \notin Normalized(lastOp.links))
                      => u \notin LedgerUrls(json)
               /\ fromisoformat(e.last_seen) = Unparseable
                      => u \in LedgerUrls(json)

\* C5 witness: one merge dropped an expired entry and kept an unparseable one.
C5_Witness ==
    /\ lastOp.name = "merge" /\ exists(pre)
    /\ \E u \in LedgerUrls(pre) :
          /\ Expired(EntryFor(pre, u), lastOp.at)
          /\ u \notin Normalized(lastOp.links)
          /\ u \notin LedgerUrls(json)
    /\ \E u \in LedgerUrls(pre) :
          /\ fromisoformat(EntryFor(pre, u).last_seen) = Unparseable
          /\ u \in LedgerUrls(json)

----------------------------------------------------------------------------
(* The observation slots under updates and reads *)

\* a record with a ledger left by an earlier run
SeenData ==
    [BootData EXCEPT !.discovered =
        <<[url |-> UrlA, source |-> SrcF,
           first_seen |-> OldIso, last_seen |-> EdgeIso]>>]

InitObsFiles ==
    {Complete(SeenData), Complete(EmptyDict), Unreadable(EmptyDict), Absent}

InitObs ==
    /\ json \in InitObsFiles
    /\ tmp = Absent
    /\ now = StartNow
    /\ lastOp = NoOp
    /\ repeat = FALSE
    /\ pre = Absent
    /\ readResult = NoRead
    /\ wpc = "idle"
    /\ pending = EmptyDict
    /\ NoConc
    /\ NoScrape

NextObs ==
    \/ \E s \in Sources, v \in Versions, t \in Timestamps :
          UpdateObservation(s, v, t)
    \/ \E s \in Sources : ReadObservation(s)
    \/ Tick

SpecObs == InitObs /\ [][NextObs]_vars

Slots(c) == Get(_load_url_json(c), "observations", <<>>)

Latest(c) == Get(_load_url_json(c), "latest", EmptyDict)

\* the slots of c that carry a timestamp
Dated(c) == {i \in DOMAIN Slots(c) : Slots(c)[i].last_update_iso # EmptyStr}

\* C2: after update_observations_latest on an existing record with at least
\* one dated slot, latest.last_update_iso is the greatest timestamp (string
\* order) of the dated slots, and latest.source and latest.version are those
\* of a slot holding it.
C2_LatestIsMaximum ==
    (lastOp.name = "update" /\ exists(pre) /\ Dated(json) # {}) =>
        /\ DOMAIN Latest(json) # {}
        /\ \A i \in Dated(json) :
              ~StrLess(Latest(json).last_update_iso,
                       Slots(json)[i].last_update_iso)
        /\ \E i \in Dated(json) :
              /\ Slots(json)[i].last_update_iso = Latest(json).last_update_iso
              /\ Slots(json)[i].source = Latest(json).source
              /\ Slots(json)[i].version = Latest(json).version

\* C2 witness: an update wrote the older of two dated slots, so latest is the
\* other source's slot.
C2_Witness ==
    /\ lastOp.name = "update" /\ exists(pre)
    /\ Cardinality(Dated(json)) = 2
    /\ lastOp.iso # EmptyStr
    /\ Latest(json).source # lastOp.source
    /\ StrLess(lastOp.iso, Latest(json).last_update_iso)

\* C6: read_observation(S) made right after update_observations_latest(S, v, t)
\* on an existing record returns (v, t).
C6_ReadAfterUpdate ==
    (readResult.fresh /\ lastOp.name = "update" /\ exists(pre)
        /\ readResult.source = lastOp.source) =>
        readResult.value = <<lastOp.version, lastOp.iso>>

\* C6 witness: the slot was overwritten with different values and read back.
C6_Witness ==
    /\ readResult.fresh /\ lastOp.name = "update" /\ exists(pre)
    /\ readResult.source = lastOp.source
    /\ read_observation(pre, lastOp.source) # <<EmptyStr, EmptyStr>>
    /\ read_observation(pre, lastOp.source) # readResult.value
    /\ readResult.value = <<lastOp.version, lastOp.iso>>

----------------------------------------------------------------------------
(* _write_url_json_atomic step by step, with crashes *)

\* TmpWrite aimed at the record itself instead of its sibling
TmpWriteInPlace(files, content) == [files EXCEPT !.path = content]

\* lines 37-38: write_text goes to path + ".tmp"
TmpWrite(files, content) == [files EXCEPT !.tmp = content]

\* Replace as a rename that does not overwrite an existing path
ReplaceIfFree(files) ==
    [path |-> IF exists(files.path) THEN files.path ELSE files.tmp,
     tmp |-> Absent]

\* line 39: tmp.replace(path), one rename
Replace(files) == [path |-> files.tmp, tmp |-> Absent]

Files == [path |-> json, tmp |-> tmp]

\* the object a call would hand to _write_url_json_atomic
UpdateCalls == {<<s, v, t>> : s \in Sources, v \in {<<49>>}, t \in {OldIso, EdgeIso}}
MergeCalls == {<<l, SrcF>> : l \in LinkLists}

\* update_observations_latest up to the open() inside write_text, which
\* creates or truncates tmp
BeginUpdate(source, version, last_update_iso) ==
    /\ wpc = "idle"
    /\ exists(json)
    /\ pending' = UpdateData(_load_url_json(json), source, version,
                             last_update_iso, now)
    /\ LET f == TmpWrite(Files, Unreadable(EmptyDict))
       IN json' = f.path /\ tmp' = f.tmp
    /\ wpc' = "open"
    /\ lastOp' = Op("update", source, version, last_update_iso, <<>>, now, FALSE)
    /\ pre' = json
    /\ repeat' = FALSE
    /\ readResult' = NoRead
    /\ UNCHANGED <<concVars, call>>
    /\ UNCHANGED <<now, scrapeVars>>

\* merge_discovered_links up to the open() inside write_text
BeginMerge(discovered_links, source) ==
    /\ wpc = "idle"
    /\ exists(json)
    /\ Changed(_load_url_json(json), discovered_links, source, now)
    /\ pending' = MergeData(_load_url_json(json), discovered_links, source, now)
    /\ LET f == TmpWrite(Files, Unreadable(EmptyDict))
       IN json' = f.path /\ tmp' = f.tmp
    /\ wpc' = "open"
    /\ lastOp' = Op("merge", source, EmptyStr, EmptyStr, discovered_links, now,
                    FALSE)
    /\ pre' = json
    /\ repeat' = FALSE
    /\ readResult' = NoRead
    /\ UNCHANGED <<concVars, call>>
    /\ UNCHANGED <<now, scrapeVars>>

\* part of the serialised text has reached tmp
WritePart ==
    /\ wpc = "open"
    /\ LET f == TmpWrite(Files, Unreadable(SortKeys(pending)))
       IN json' = f.path /\ tmp' = f.tmp
    /\ wpc' = "part"
    /\ UNCHANGED <<concVars, call>>
    /\ UNCHANGED <<now, lastOp, repeat, pre, readResult, pending, scrapeVars>>

\* all of it has, and tmp is closed
WriteRest ==
    /\ wpc = "part"
    /\ LET f == TmpWrite(Files, Complete(SortKeys(pending)))
       IN json' = f.path /\ tmp' = f.tmp
    /\ wpc' = "full"
    /\ UNCHANGED <<concVars, call>>
    /\ UNCHANGED <<now, lastOp, repeat, pre, readResult, pending, scrapeVars>>

\* tmp.replace(path)
ReplacePath ==
    /\ wpc = "full"
    /\ LET f == Replace(Files)
       IN json' = f.path /\ tmp' = f.tmp
    /\ wpc' = "idle"
    /\ lastOp' = [lastOp EXCEPT !.wrote = TRUE]
    /\ UNCHANGED <<concVars, call>>
    /\ UNCHANGED <<now, repeat, pre, readResult, pending, scrapeVars>>

\* the process dies inside the write; whatever is on disk stays
Crash ==
    /\ wpc # "idle"
    /\ wpc' = "idle"
    /\ lastOp' = [lastOp EXCEPT !.name = "crash"]
    /\ UNCHANGED <<concVars, call>>
    /\ UNCHANGED <<json, tmp, now, repeat, pre, readResult, pending, scrapeVars>>

InitWrite ==
    /\ json \in {Complete(SeenData), Complete(EmptyDict)}
    /\ tmp = Absent
    /\ now = StartNow
    /\ lastOp = NoOp
    /\ repeat = FALSE
    /\ pre = Absent
    /\ readResult = NoRead
    /\ wpc = "idle"
    /\ pending = EmptyDict
    /\ NoConc
    /\ NoScrape

NextWrite ==
    \/ \E c \in UpdateCalls : BeginUpdate(c[1], c[2], c[3])
    \/ \E c \in MergeCalls : BeginMerge(c[1], c[2])
    \/ WritePart
    \/ WriteRest
    \/ ReplacePath
    \/ Crash
    \/ Tick

SpecWrite == InitWrite /\ [][NextWrite]_vars

\* C1: from the start of a write on, crashes included, url.json holds the
\* complete record it held before the write or the complete new record.
C1_PriorOrNew ==
    lastOp.name # "none" =>
        /\ json.kind = "json"
        /\ json = pre \/ json = Complete(SortKeys(pending))

\* C1 witness: the writer died with tmp half written and url.json still
\* holds the prior record, which differs from the new one.
C1_Witness ==
    /\ lastOp.name = "crash"
    /\ tmp.kind = "bad" /\ tmp.data # EmptyDict
    /\ json = pre
    /\ json # Complete(SortKeys(pending))

----------------------------------------------------------------------------
(* utils.py and sources.py, as far as scrape_all uses them *)

Strip(s) == RStrip(LStrip(s))

\* position of the first c in s at or after i, 0 if there is none
RECURSIVE Find(_, _, _)
Find(s, c, i) ==
    IF i > Len(s) THEN 0 ELSE IF s[i] = c THEN i ELSE Find(s, c, i + 1)

\* SearchGroup with [^\]]* in place of [^\]]+: an empty "[]" is a match
RECURSIVE SearchGroupAny(_, _)
SearchGroupAny(s, i) ==
    IF i > Len(s) THEN <<0, 0>>
    ELSE IF s[i] = 91 /\ Find(s, 93, i + 1) > i
    THEN <<i, Find(s, 93, i + 1)>>
    ELSE SearchGroupAny(s, i + 1)

\* re.search(r"\[([^\]]+)\]", title): the leftmost "[" whose next "]" is not
\* right behind it; <<open, close>> or <<0, 0>>
RECURSIVE SearchGroup(_, _)
SearchGroup(s, i) ==
    IF i > Len(s) THEN <<0, 0>>
    ELSE IF s[i] = 91 /\ Find(s, 93, i + 1) > i + 1
    THEN <<i, Find(s, 93, i + 1)>>
    ELSE SearchGroup(s, i + 1)

\* re.sub(r"\[[^\]]*\]", "", title)
RECURSIVE RemoveGroups(_, _)
RemoveGroups(s, i) ==
    IF i > Len(s) THEN <<>>
    ELSE IF s[i] = 91 /\ Find(s, 93, i + 1) # 0
    THEN RemoveGroups(s, Find(s, 93, i + 1) + 1)
    ELSE <<s[i]>> \o RemoveGroups(s, i + 1)

\* re.sub(r"\s+", " ", s)
RECURSIVE CollapseSpaces(_)
CollapseSpaces(s) ==
    IF s = <<>> THEN <<>>
    ELSE IF IsSpace(s[1]) THEN <<32>> \o CollapseSpaces(LStrip(Tail(s)))
    ELSE <<s[1]>> \o CollapseSpaces(Tail(s))

\* the characters of .strip(" -<en dash><em dash>\t ")
Separators == {32, 45, 8211, 8212, 9}

RECURSIVE StripChars(_, _)
StripChars(s, cs) ==
    IF s # <<>> /\ s[1] \in cs THEN StripChars(Tail(s), cs)
    ELSE IF s # <<>> /\ s[Len(s)] \in cs
    THEN StripChars(SubSeq(s, 1, Len(s) - 1), cs)
    ELSE s

\* utils.split_bracket_version: <<version, cleaned>>
split_bracket_version(title) ==
    LET g == SearchGroup(title, 1)
        version == IF g[1] = 0 THEN EmptyStr
                   ELSE Strip(SubSeq(title, g[1] + 1, g[2] - 1))
        cleaned == StripChars(CollapseSpaces(RemoveGroups(title, 1)),
                              Separators)
    IN <<version, cleaned>>

NA == <<78, 47, 65>>      \* "N/A"

\* strftime("%B %-d, %Y"): the day, spelled for people ("D" and the day)
PrettyOf(day) == <<68>> \o _now_iso_z(day)

\* utils.iso_to_pretty_date
iso_to_pretty_date(iso) ==
    IF Strip(iso) = EmptyStr THEN NA
    ELSE IF fromisoformat(Strip(iso)) = Unparseable THEN NA
    ELSE PrettyOf(fromisoformat(Strip(iso)))

\* utils.pretty_date_to_dt: the day, or Unparseable for None
pretty_date_to_dt(p) ==
    LET t == Strip(p)
    IN IF t = EmptyStr \/ t = NA THEN Unparseable
       ELSE IF Len(t) = 4 /\ t[1] = 68 THEN fromisoformat(Tail(t))
       ELSE Unparseable

\* orchestrator._dt_to_iso_z
_dt_to_iso_z(dt) == _now_iso_z(dt)

\* classify_recency with < in place of <= at line 61
classify_recencyStrict(updated_iso, t) ==
    LET dt == fromisoformat(updated_iso)
        age_days == t - dt
    IN IF dt = Unparseable THEN "Old"
       ELSE IF age_days < RECENT_DAYS THEN "Recent"
       ELSE IF age_days >= ABANDONED_DAYS THEN "Abandoned"
       ELSE "Old"

\* orchestrator.classify_recency
classify_recency(updated_iso, t) ==
    LET dt == fromisoformat(updated_iso)
        age_days == t - dt
    IN IF dt = Unparseable THEN "Old"
       ELSE IF age_days <= RECENT_DAYS THEN "Recent"
       ELSE IF age_days >= ABANDONED_DAYS THEN "Abandoned"
       ELSE "Old"

\* urlparse: what follows the scheme, for a url that starts with letters
\* and a colon
AfterScheme(url) ==
    LET c == Find(url, 58, 1)
    IN IF c > 1 /\ \A i \in 1..(c - 1) : url[i] \in (65..90) \cup (97..122)
       THEN SubSeq(url, c + 1, Len(url))
       ELSE url

\* urlparse(url).netloc and .path for urls of the shape
\* [scheme:]//host/path or path
netloc(url) ==
    LET rest == AfterScheme(url)
    IN IF Len(rest) >= 2 /\ rest[1] = 47 /\ rest[2] = 47
       THEN LET e == Find(rest, 47, 3)
            IN SubSeq(rest, 3, IF e = 0 THEN Len(rest) ELSE e - 1)
       ELSE EmptyStr

urlpath(url) ==
    LET rest == AfterScheme(url)
    IN IF Len(rest) >= 2 /\ rest[1] = 47 /\ rest[2] = 47
       THEN LET e == Find(rest, 47, 3)
            IN IF e = 0 THEN EmptyStr ELSE SubSeq(rest, e, Len(rest))
       ELSE rest

Lower(c) == IF c \in 65..90 THEN c + 32 ELSE c

LowerStr(s) == [i \in DOMAIN s |-> Lower(s[i])]

IsAlnum(c) == c \in (48..57) \cup (65..90) \cup (97..122)

HostFap == <<119, 102>>   \* stands for www.fap-nation.com
HostItch == <<105>>       \* stands for itch.io
HostOther == <<103>>      \* a site without an adapter of its own
SrcUnknown == <<117>>     \* "unknown"

\* utils.normalize_domain: removeprefix("www."), here the leading "w"
normalize_domain(d) ==
    IF LowerStr(d) # <<>> /\ LowerStr(d)[1] = 119
    THEN Tail(LowerStr(d)) ELSE LowerStr(d)

\* sources.source_from_url
source_from_url(url) ==
    LET d == LowerStr(netloc(url))
    IN IF d = EmptyStr THEN SrcUnknown ELSE normalize_domain(d)

\* the last non-empty "/"-separated piece of a path
RECURSIVE LastSegment(_, _)
LastSegment(path, acc) ==
    IF path = <<>> THEN acc
    ELSE IF path[1] = 47
    THEN LastSegment(Tail(path),
                     IF Find(Tail(path), 47, 1) = 1 \/ Tail(path) = <<>>
                     THEN acc ELSE <<>>)
    ELSE LastSegment(Tail(path), Append(acc, path[1]))

\* re.sub(r"[^a-zA-Z0-9]+", "_", base)
RECURSIVE Slug(_)
Slug(s) ==
    IF s = <<>> THEN <<>>
    ELSE IF IsAlnum(s[1]) THEN <<s[1]>> \o Slug(Tail(s))
    ELSE IF Len(s) > 1 /\ ~IsAlnum(s[2]) THEN Slug(Tail(s))
    ELSE <<95>> \o Slug(Tail(s))

\* utils.game_id_from_url
game_id_from_url(url) ==
    LET seg == LastSegment(urlpath(url), <<>>)
        base == IF seg # <<>> THEN seg ELSE netloc(url)
        id == LowerStr(StripChars(Slug(base), {95}))
    IN IF id = EmptyStr THEN SrcUnknown \o <<110>> ELSE id

\* "|".join(links)
RECURSIVE Join(_)
Join(links) ==
    IF links = <<>> THEN <<>>
    ELSE IF Len(links) = 1 THEN links[1]
    ELSE links[1] \o <<124>> \o Join(Tail(links))

----------------------------------------------------------------------------
(* scrape_all *)

Title1 == <<71, 32, 91, 49, 93>>        \* "G [1]"
UrlFap == <<47, 47, 119, 102, 47, 120>> \* "//wf/x"
UrlItch == <<47, 47, 105, 47, 121>>     \* "//i/y"

\* ScrapeItem; folder_path "" is None, as for the legacy (game_id, url) pairs
Item(url, forced_game_id, folder_path) ==
    [url |-> url, forced_game_id |-> forced_game_id,
     folder_path |-> folder_path]

ItemSet ==
    {Item(<<32>> \o UrlFap, EmptyStr, "dir"),
     Item(UrlItch, <<121>>, "dir"),
     Item(UrlFap, <<120>>, "")}

RECURSIVE SeqsUpTo(_, _)
SeqsUpTo(S, n) ==
    IF n = 0 THEN {<<>>}
    ELSE LET shorter == SeqsUpTo(S, n - 1)
         IN shorter \cup {Append(q, x) : q \in shorter, x \in S}

\* what _coerce_items can return
ItemLists == SeqsUpTo(ItemSet, MaxItems)

\* scrape_fapnation_page: fetch_html gave None, or the fields of the page
FapOutcomes ==
    {[raw_title |-> EmptyStr, updated_iso |-> EmptyStr, pretty |-> EmptyStr,
      links |-> <<>>, err |-> "fetch_failed"]}
    \cup
    {[raw_title |-> rt, updated_iso |-> iso,
      pretty |-> IF iso # EmptyStr THEN iso_to_pretty_date(iso) ELSE NA,
      links |-> ls, err |-> ""] :
        rt \in {EmptyStr, Title1}, iso \in {EmptyStr, OldIso, EdgeIso},
        ls \in {<<>>, <<UrlA>>}}

\* scrape_itch_page, scrape_lewdgames_page, scrape_generic_page
EmptyOutcome ==
    [raw_title |-> EmptyStr, updated_iso |-> EmptyStr, pretty |-> EmptyStr,
     links |-> <<>>, err |-> ""]

\* scrape_one: what the adapter chosen for the url can return
scrape_one(url) ==
    IF source_from_url(url) = SrcF THEN FapOutcomes ELSE {EmptyOutcome}

\* a record with an expired ledger entry and a slot for source "f"
RunData ==
    [BootData EXCEPT
        !.discovered = <<[url |-> UrlB, source |-> SrcF,
                          first_seen |-> OldIso, last_seen |-> OldIso]>>,
        !.observations = <<[source |-> SrcF, version |-> <<49>>,
                            last_update_iso |-> OldIso]>>,
        !.latest = [source |-> SrcF, version |-> <<49>>,
                    last_update_iso |-> OldIso, computed_at |-> OldIso]]

\* StoreCalls without the err branch: the store is called whatever came back
StoreCallsAlways(err, folder_path) ==
    IF folder_path # "" THEN <<"merge", "update">> ELSE <<>>

\* lines 145-187: the store functions the loop body calls, in order
StoreCalls(err, folder_path) ==
    IF err # "" THEN <<>>
    ELSE IF folder_path # "" THEN <<"merge", "update">>
    ELSE <<>>

\* lines 166-187: the record after those calls
RECURSIVE ApplyStoreCalls(_, _, _, _, _, _, _)
ApplyStoreCalls(names, c, links, src, version, updated_iso, t) ==
    IF names = <<>> THEN c
    ELSE LET c1 == IF Head(names) = "merge"
                   THEN merge_discovered_links(c, links, src, t)
                   ELSE update_observations_latest(c, src, version,
                                                   updated_iso, t)
         IN ApplyStoreCalls(Tail(names), c1, links, src, version,
                            updated_iso, t)

\* Returning with one try around both calls: a raise skips the calls after it
ReturningUntilRaise(names, raises) ==
    SubSeq(names, 1,
           IF \E i \in DOMAIN names : names[i] \in raises
           THEN (CHOOSE i \in DOMAIN names :
                    /\ names[i] \in raises
                    /\ \A j \in DOMAIN names : names[j] \in raises => i <= j) - 1
           ELSE Len(names))

\* the calls of names that return; a call in raises ends in the except
\* clause around it (lines 174-176, 186-187) and has written nothing
Returning(names, raises) == SelectSeq(names, LAMBDA n : n \notin raises)

\* progress_cb(idx, total, message), when a callback was passed
Progress(kind, i) ==
    IF progress_cb THEN Append(calls, <<kind, i, Len(items)>>) ELSE calls

\* lines 129-136: next item, "Fetching" progress, scrape_one
Fetch ==
    /\ pc = "loop"
    /\ item_idx < Len(items)
    /\ item_idx' = item_idx + 1
    /\ LET url == normalize_url(items[item_idx + 1].url)
       IN /\ locals' = [NoLocals EXCEPT !.url = url,
                                        !.src = source_from_url(url)]
          /\ \E o \in scrape_one(url) : outcome' = o
    /\ calls' = Progress("fetching", item_idx + 1)
    /\ pc' = "fetched"
    /\ pre' = json
    /\ invoked' = <<>>
    /\ faulted' = {}
    /\ UNCHANGED <<concVars, call>>
    /\ UNCHANGED <<json, tmp, now, lastOp, repeat, readResult, writeVars,
                   items, progress_cb, change_status, results, raised>>

\* lines 137-187: parse, then the err branch or the success branch
Process ==
    /\ pc = "fetched"
    /\ LET item == items[item_idx]
           sv == split_bracket_version(outcome.raw_title)
           synth == IF outcome.updated_iso = EmptyStr
                       /\ outcome.pretty # EmptyStr
                       /\ pretty_date_to_dt(outcome.pretty) # Unparseable
                    THEN _dt_to_iso_z(pretty_date_to_dt(outcome.pretty))
                    ELSE outcome.updated_iso
           names == StoreCalls(outcome.err, item.folder_path)
       IN /\ invoked' = names
          /\ \E raises \in SUBSET {names[i] : i \in DOMAIN names} :
                /\ faulted' = raises
                /\ json' = ApplyStoreCalls(Returning(names, raises), json,
                                           outcome.links, locals.src,
                                           sv[1], synth, now)
          /\ IF outcome.err # ""
             THEN \* line 150 reads prev_row, a name nothing defines
                  /\ change_status' = "ERROR"
                  /\ locals' = [locals EXCEPT
                        !.version = sv[1], !.clean_title = sv[2],
                        !.updated_iso = synth, !.pretty = outcome.pretty,
                        !.links = outcome.links, !.is_recent = "Old"]
                  /\ pc' = "raised"
                  /\ raised' = "NameError"
             ELSE /\ locals' = [locals EXCEPT
                        !.version = sv[1], !.clean_title = sv[2],
                        !.updated_iso = synth,
                        !.pretty =
                            LET p == IF synth # EmptyStr
                                     THEN iso_to_pretty_date(synth)
                                     ELSE outcome.pretty
                            IN IF p = EmptyStr THEN NA ELSE p,
                        !.links = outcome.links,
                        !.is_recent = IF synth # EmptyStr
                                      THEN classify_recency(synth, now)
                                      ELSE "Old"]
                  /\ pc' = "emit"
                  /\ UNCHANGED <<change_status, raised>>
    /\ UNCHANGED <<concVars, call>>
    /\ UNCHANGED <<tmp, now, lastOp, repeat, pre, readResult, writeVars,
                   items, progress_cb, item_idx, outcome, results, calls>>

\* GameInfo(...) of lines 191-203
Row ==
    LET item == items[item_idx]
    IN [url |-> locals.url, source |-> locals.src,
        game_id |-> IF item.forced_game_id # EmptyStr
                    THEN item.forced_game_id
                    ELSE game_id_from_url(locals.url),
        title |-> IF locals.clean_title # EmptyStr
                  THEN locals.clean_title ELSE NA,
        raw_title |-> IF outcome.raw_title # EmptyStr
                      THEN outcome.raw_title ELSE NA,
        version |-> locals.version, last_update |-> locals.pretty,
        updated_utc_iso |-> locals.updated_iso,
        is_recent |-> locals.is_recent, change_status |-> change_status,
        external_links |-> Join(locals.links)]

\* lines 189-219: build the row, append it, "Processed" progress
Emit ==
    /\ pc = "emit"
    /\ IF change_status = Unbound
       THEN \* line 201 reads a local that no statement has assigned
            /\ pc' = "raised"
            /\ raised' = "UnboundLocalError"
            /\ UNCHANGED <<results, calls>>
       ELSE /\ results' = Append(results, Row)
            /\ calls' = Progress("processed", item_idx)
            /\ pc' = "loop"
            /\ UNCHANGED raised
    /\ UNCHANGED <<concVars, call>>
    /\ UNCHANGED <<storeVars, writeVars, items, progress_cb, item_idx,
                   outcome, locals, change_status, invoked, faulted>>

\* lines 222-225: the list is exhausted, "Done" progress, return results
Return ==
    /\ pc = "loop"
    /\ item_idx = Len(items)
    /\ calls' = Progress("done", Len(items))
    /\ pc' = "returned"
    /\ UNCHANGED <<concVars, call>>
    /\ UNCHANGED <<storeVars, writeVars, items, progress_cb, item_idx,
                   outcome, locals, change_status, invoked, results, raised,
                   faulted>>

InitScrape ==
    /\ json \in {Complete(RunData), Complete(BootData), Absent}
    /\ tmp = Absent
    /\ now = StartNow
    /\ lastOp = NoOp
    /\ repeat = FALSE
    /\ pre = Absent
    /\ readResult = NoRead
    /\ wpc = "idle"
    /\ pending = EmptyDict
    /\ NoConc
    /\ items \in ItemLists
    /\ progress_cb \in BOOLEAN
    /\ item_idx = 0
    /\ pc = "loop"
    /\ outcome = NoOutcome
    /\ locals = NoLocals
    /\ change_status = Unbound
    /\ invoked = <<>>
    /\ results = <<>>
    /\ calls = <<>>
    /\ raised = ""
    /\ faulted = {}

NextScrape ==
    \/ Fetch
    \/ Process
    \/ Emit
    \/ Return
    \/ Tick

SpecScrape == InitScrape /\ [][NextScrape]_vars

----------------------------------------------------------------------------
(* Properties of scrape_all *)

\* the loop body has finished for entry item_idx: its row was appended and
\* the loop went on, or the body raised, or scrape_all returned
EntryDone ==
    /\ item_idx >= 1
    /\ pc \in {"loop", "raised", "returned"}

\* what the store held for the entry and its source before the fetch
PriorObservation == read_observation(pre, locals.src)

StatusFor(prior_iso, new_iso) ==
    IF prior_iso = EmptyStr THEN "New"
    ELSE IF new_iso # EmptyStr /\ StrLess(prior_iso, new_iso) THEN "Updated"
    ELSE "Unchanged"

\* C7: for every entry fetched without an error, the emitted row carries
\* New when no prior timestamp was stored for the entry and source, Updated
\* when the new timestamp is non-empty and strictly greater than the prior
\* one, and Unchanged otherwise.
C7_StatusOnEmittedRow ==
    (EntryDone /\ outcome.err = "") =>
        /\ Len(results) >= item_idx
        /\ results[item_idx].change_status =
               StatusFor(PriorObservation[2], locals.updated_iso)

\* C8: when the adapter returns an error signal, a row is emitted for the
\* entry with status Error, whose version and timestamp are those of the
\* entry's previous observation when there is one.
C8_ErrorRowCarriesPrevious ==
    (EntryDone /\ outcome.err # "") =>
        /\ Len(results) >= item_idx
        /\ results[item_idx].change_status = "ERROR"
        /\ PriorObservation # <<EmptyStr, EmptyStr>> =>
               /\ results[item_idx].version = PriorObservation[1]
               /\ results[item_idx].updated_utc_iso = PriorObservation[2]

\* C9: when the adapter returns an error signal for an entry, no store
\* function is called for it and url.json is what it was before the fetch
\* (ledger, observations, latest, updated_at; nothing is pruned).
C9_ErrorTouchesNoRecord ==
    (item_idx >= 1 /\ pc # "fetched" /\ outcome.err # "") =>
        /\ invoked = <<>>
        /\ json = pre

\* C9 witness: an error outcome was handled for an entry that has a folder
\* whose record holds a ledger entry past the retention window, which a
\* merge would have pruned
C9_Witness ==
    /\ item_idx >= 1
    /\ pc = "raised"
    /\ outcome.err # ""
    /\ items[item_idx].folder_path # ""
    /\ exists(pre)
    /\ \E i \in DOMAIN Ledger(pre) : Expired(Ledger(pre)[i], now)
    /\ json = pre

\* C10: every entry goes Pending, Fetching, Succeeded or Failed, Persisted,
\* and scrape_all returns without raising.
C10_NeverRaises == pc # "raised"

\* scrape_all has ended, by return or by an exception
Ended == pc \in {"returned", "raised"}

\* C11: scrape_all ends with exactly one row per input entry, the i-th row
\* being that of the i-th entry (entries are handled one at a time, in
\* input order).
C11_OneRowPerEntryInOrder ==
    Ended =>
        /\ Len(results) = Len(items)
        /\ \A i \in DOMAIN items :
               results[i].url = normalize_url(items[i].url)

\* C12: if merge_discovered_links or update_observations_latest raises
\* while entry i is persisted, a row is still appended for entry i and the
\* loop goes on to every later entry.
C12_StoreFaultKeepsBatchGoing ==
    (EntryDone /\ faulted # {}) =>
        /\ Len(results) >= item_idx
        /\ Ended => item_idx = Len(items)

\* the progress calls of a complete run over n entries, from entry i on
RECURSIVE CallsFrom(_, _)
CallsFrom(i, n) ==
    IF i > n THEN <<<<"done", n, n>>>>
    ELSE <<<<"fetching", i, n>>, <<"processed", i, n>>>> \o CallsFrom(i + 1, n)

\* C13: with a progress callback, a run over n entries makes exactly the
\* calls fetching (i, n), processed (i, n) for i = 1..n in order, then one
\* last call done (n, n).
C13_ProgressSequence ==
    (Ended /\ progress_cb) => calls = CallsFrom(1, Len(items))

----------------------------------------------------------------------------
(* Two runs calling update_observations_latest on one record at once.      *)
(* Both use the same temporary name, path + ".tmp" (line 37).              *)

RunIds == {1, 2}

\* the call each run makes: its own source, so each has its own slot
RunSource(r) == IF r = 1 THEN SrcF ELSE SrcI

RunIso(r) == IF r = 1 THEN OldIso ELSE EdgeIso

\* pc: where the run stands in the call; data: the object it serialises;
\* where: the name its open file has now; seq: its rank among the renames
NewRun == [pc |-> "start", data |-> EmptyDict, where |-> "tmp", seq |-> 0]

Truncated == Unreadable(EmptyDict)

\* lines 320-373: exists check, load, change the object in memory
RunRead(r) ==
    /\ runs[r].pc = "start"
    /\ runs' = [runs EXCEPT ![r] =
           IF ~exists(json) THEN [@ EXCEPT !.pc = "skipped"]
           ELSE [@ EXCEPT !.pc = "read",
                          !.data = update_observations_latest(
                                       json, RunSource(r), <<49>>, RunIso(r),
                                       now).data]]
    /\ UNCHANGED <<storeVars, writeVars, scrapeVars, ui, library, call>>

\* line 38, open(tmp, "w"): creates tmp, or empties the file of that name
RunOpen(r) ==
    /\ runs[r].pc = "read"
    /\ LET f == TmpWrite(Files, Truncated)
       IN json' = f.path /\ tmp' = f.tmp
    /\ runs' = [runs EXCEPT ![r].pc = "open", ![r].where = "tmp"]
    /\ UNCHANGED <<now, lastOp, repeat, pre, readResult, writeVars,
                   scrapeVars, ui, library, call>>

\* line 38, write and close: the text goes to offset 0 of the open file; over
\* text another run wrote meanwhile it leaves that text's tail when shorter
RunWrite(r) ==
    /\ runs[r].pc = "open"
    /\ LET cur == IF runs[r].where = "tmp" THEN tmp ELSE json
           outs == IF cur = Truncated
                   THEN {Complete(runs[r].data)}
                   ELSE {Complete(runs[r].data), Unreadable(runs[r].data)}
       IN \E content \in outs :
              LET f == IF runs[r].where = "tmp"
                       THEN TmpWrite(Files, content)
                       ELSE [Files EXCEPT !.path = content]
              IN json' = f.path /\ tmp' = f.tmp
    /\ runs' = [runs EXCEPT ![r].pc = "written"]
    /\ UNCHANGED <<now, lastOp, repeat, pre, readResult, writeVars,
                   scrapeVars, ui, library, call>>

\* line 39, tmp.replace(path): FileNotFoundError when the other run has
\* renamed tmp away; a file the other run still has open goes with the name
RunReplace(r) ==
    /\ runs[r].pc = "written"
    /\ IF ~exists(tmp)
       THEN /\ runs' = [runs EXCEPT ![r].pc = "raised"]
            /\ UNCHANGED <<json, tmp>>
       ELSE /\ LET f == Replace(Files)
               IN json' = f.path /\ tmp' = f.tmp
            /\ runs' = [q \in RunIds |->
                  IF q = r
                  THEN [runs[q] EXCEPT
                           !.pc = "done",
                           !.seq = 1 + Cardinality(
                                {x \in RunIds : runs[x].pc = "done"})]
                  ELSE IF runs[q].pc = "open"
                       THEN [runs[q] EXCEPT !.where = "path"]
                       ELSE runs[q]]
    /\ UNCHANGED <<now, lastOp, repeat, pre, readResult, writeVars,
                   scrapeVars, ui, library, call>>

InitRace ==
    /\ json \in {Complete(BootData), Complete(RunData), Complete(EmptyDict),
                 Absent}
    /\ tmp = Absent
    /\ now = StartNow
    /\ lastOp = NoOp
    /\ repeat = FALSE
    /\ pre = json
    /\ readResult = NoRead
    /\ wpc = "idle"
    /\ pending = EmptyDict
    /\ NoScrape
    /\ runs = [r \in RunIds |-> NewRun]
    /\ ui = NoUI
    /\ library = <<>>
    /\ call = NoCall

NextRace ==
    \/ \E r \in RunIds : RunRead(r)
    \/ \E r \in RunIds : RunOpen(r)
    \/ \E r \in RunIds : RunWrite(r)
    \/ \E r \in RunIds : RunReplace(r)
    \/ Tick

SpecRace == InitRace /\ [][NextRace]_vars

\* C14: with two runs writing the same record at once, url.json always
\* holds one complete record, the one the runs found or one serialised by
\* one of them; no interleaving leaves partial or mixed content there.
C14_PathAlwaysComplete ==
    \/ json = pre
    \/ \E r \in RunIds :
          /\ runs[r].pc \in {"open", "written", "done", "raised"}
          /\ json = Complete(runs[r].data)

BothDone == \A r \in RunIds : runs[r].pc = "done"

LastWriter == CHOOSE r \in RunIds : runs[r].seq = Cardinality(RunIds)

SlotSources(c) == {Slots(c)[i].source : i \in DOMAIN Slots(c)}

\* C15: two runs that read, change and write the same record are not
\* merged: once both update_observations_latest calls have returned, the
\* record is the object of the run that renamed last, as computed from
\* what that run had read (last writer wins), so the other run's slot can
\* be missing.
C15_LastWriterWins ==
    BothDone => json = Complete(runs[LastWriter].data)

\* C15 witness: both calls have returned, the record the runs found had no
\* slot, and the record now holds the slot of one run only
C15_Witness ==
    /\ BothDone
    /\ SlotSources(pre) = {}
    /\ SlotSources(json) = {RunSource(LastWriter)}

----------------------------------------------------------------------------
(* ScrapeApp: mount, refresh and the scrape worker *)

\* start_scrape, line 410: run_worker(..., exclusive=True) cancels the
\* worker that is there and schedules a new _scrape_worker coroutine. A
\* cancelled coroutine stops at its await; the function it handed to the
\* executor (line 441) runs on in its thread.
start_scrape(u) == [u EXCEPT !.worker = "started"]

\* on_mount, lines 210-218, with the start_scrape it schedules
Mount ==
    /\ ~ui.mounted
    /\ ui' = start_scrape([ui EXCEPT !.mounted = TRUE])
    /\ UNCHANGED <<storeVars, writeVars, scrapeVars, runs,
                   library, call>>

\* action_refresh, lines 397-398
Refresh ==
    /\ ui.mounted
    /\ ui.refreshes < MaxRefreshes
    /\ ui' = start_scrape([ui EXCEPT !.refreshes = @ + 1])
    /\ UNCHANGED <<storeVars, writeVars, scrapeVars, runs,
                   library, call>>

\* _scrape_worker up to its await, lines 412-441: _do, that is scrape_all,
\* starts in an executor thread and fetches its first entry
WorkerSubmit ==
    /\ ui.worker = "started"
    /\ ui' = [ui EXCEPT !.worker = "awaiting",
                        !.threads = Append(@, "fetching")]
    /\ UNCHANGED <<storeVars, writeVars, scrapeVars, runs,
                   library, call>>

\* scrape_all in thread i: scrape_one has returned (orchestrator line 136)
ThreadFetched(i) ==
    /\ ui.threads[i] = "fetching"
    /\ ui' = [ui EXCEPT !.threads[i] = "persisting"]
    /\ UNCHANGED <<storeVars, writeVars, scrapeVars, runs,
                   library, call>>

\* scrape_all in thread i has left its loop
ThreadEnd(i) ==
    /\ ui.threads[i] = "persisting"
    /\ ui' = [ui EXCEPT !.threads[i] = "ended"]
    /\ UNCHANGED <<storeVars, writeVars, scrapeVars, runs,
                   library, call>>

\* _scrape_worker after its await, lines 441-443; the thread of the worker
\* that is there is the one started last
WorkerResume ==
    /\ ui.worker = "awaiting"
    /\ ui.threads[Len(ui.threads)] = "ended"
    /\ ui' = [ui EXCEPT !.worker = "finished"]
    /\ UNCHANGED <<storeVars, writeVars, scrapeVars, runs,
                   library, call>>

InitUI ==
    /\ json \in {Complete(BootData), Absent}
    /\ tmp = Absent
    /\ now = StartNow
    /\ lastOp = NoOp
    /\ repeat = FALSE
    /\ pre = Absent
    /\ readResult = NoRead
    /\ wpc = "idle"
    /\ pending = EmptyDict
    /\ NoScrape
    /\ runs = NoRuns
    /\ ui = NoUI
    /\ library = <<>>
    /\ call = NoCall

NextUI ==
    \/ Mount
    \/ Refresh
    \/ WorkerSubmit
    \/ \E i \in DOMAIN ui.threads : ThreadFetched(i)
    \/ \E i \in DOMAIN ui.threads : ThreadEnd(i)
    \/ WorkerResume
    \/ Tick

SpecUI == InitUI /\ [][NextUI]_vars

\* the scrape_all loops that are executing
Executing == {i \in DOMAIN ui.threads : ui.threads[i] # "ended"}

\* C16: whatever the sequence of mount and refresh actions, at most one
\* scrape_all loop is executing at any time (so at most one fetch is in
\* flight and a record has at most one writer).
C16_OneLoopAtATime == Cardinality(Executing) <= 1

----------------------------------------------------------------------------
(* collect_urls_from_library and the work items _scrape_worker builds *)

Http == <<104, 116, 116, 112, 58>>                  \* "http:"
Https == <<104, 116, 116, 112, 115, 58>>            \* "https:"
LibFap1 == Http \o UrlFap                           \* "http://wf/x"
LibFap2 == Http \o <<47, 47, 119, 102, 47, 122>>    \* "http://wf/z"
LibItch == Https \o UrlItch                         \* "https://i/y"

StartsWith(s, p) == Len(s) >= Len(p) /\ SubSeq(s, 1, Len(p)) = p

\* lines 21-23
_is_real_url(u) ==
    LET l == LowerStr(Strip(u))
    IN StartsWith(l, Http \o <<47, 47>>) \/ StartsWith(l, Https \o <<47, 47>>)

\* the elements of q in order, each at its first place only
RECURSIVE DedupFrom(_, _)
DedupFrom(q, seen) ==
    IF q = <<>> THEN <<>>
    ELSE IF Head(q) \in seen THEN DedupFrom(Tail(q), seen)
    ELSE <<Head(q)>> \o DedupFrom(Tail(q), seen \cup {Head(q)})

\* Dedup keeping every occurrence
DedupKeepsAll(q) == q

Dedup(q) == DedupFrom(q, {})

\* lines 46-54: the lines of url.txt that are links
RECURSIVE TxtLinks(_)
TxtLinks(lines) ==
    IF lines = <<>> THEN <<>>
    ELSE LET line == Strip(Head(lines))
             url == normalize_url(line)
         IN IF line = EmptyStr \/ line[1] = 35 THEN TxtLinks(Tail(lines))
            ELSE IF url # EmptyStr /\ _is_real_url(url)
            THEN <<url>> \o TxtLinks(Tail(lines))
            ELSE TxtLinks(Tail(lines))

\* lines 42-80: the object _bootstrap_from_txt writes and returns
_bootstrap_from_txt(lines, status, t) ==
    LET links_dedup == Dedup(TxtLinks(lines))
    IN [game_id |-> IF links_dedup # <<>>
                    THEN game_id_from_url(links_dedup[1]) ELSE EmptyStr,
        status |-> status,
        manual |-> [links |-> links_dedup, source_file |-> "url.txt"],
        discovered |-> <<>>, observations |-> <<>>, latest |-> EmptyDict,
        updated_at |-> _now_iso_z(t)]

\* lines 97-104: the manual links of a record, normalised, real, once each
RECURSIVE RealUrls(_)
RealUrls(links) ==
    IF links = <<>> THEN <<>>
    ELSE LET u2 == normalize_url(Head(links))
         IN IF u2 # EmptyStr /\ _is_real_url(u2)
            THEN <<u2>> \o RealUrls(Tail(links))
            ELSE RealUrls(Tail(links))

\* a game folder: its name, whether it lies under waiting_root, url.json
\* and url.txt
Folder(name, waiting, file, has_txt, lines) ==
    [folder |-> name, waiting |-> waiting, json |-> file,
     txt |-> [exists |-> has_txt, lines |-> lines]]

\* line 155
StatusOf(f) == IF f.waiting THEN "Waiting Update" ELSE "Active Play"

\* _get_folder_urls looking at url.txt before url.json
_get_folder_urlsTxtFirst(f, t) ==
    IF f.txt.exists
    THEN LET data == _bootstrap_from_txt(f.txt.lines, StatusOf(f), t)
         IN [urls |-> data.manual.links,
             json |-> _write_url_json_atomic(data)]
    ELSE IF exists(f.json)
    THEN LET manual == Get(_load_url_json(f.json), "manual", EmptyDict)
         IN [urls |-> Dedup(RealUrls(Get(manual, "links", <<>>))),
             json |-> f.json]
    ELSE [urls |-> <<>>, json |-> f.json]

\* _get_folder_urls, lines 83-114: the urls (<<>> also stands for None) and
\* url.json as the call leaves it
_get_folder_urls(f, t) ==
    IF exists(f.json)
    THEN LET manual == Get(_load_url_json(f.json), "manual", EmptyDict)
         IN [urls |-> Dedup(RealUrls(Get(manual, "links", <<>>))),
             json |-> f.json]
    ELSE IF f.txt.exists
    THEN LET data == _bootstrap_from_txt(f.txt.lines, StatusOf(f), t)
         IN [urls |-> data.manual.links,
             json |-> _write_url_json_atomic(data)]
    ELSE [urls |-> <<>>, json |-> f.json]

\* lines 161-170 for one folder, and the ScrapeItem app.py 418-426 makes
\* of each FolderUrlItem
FolderItems(f, t) ==
    LET urls == _get_folder_urls(f, t).urls
    IN [i \in DOMAIN urls |->
          Item(urls[i], game_id_from_url(urls[i]), f.folder)]

RECURSIVE AllItems(_, _)
AllItems(lib, t) ==
    IF lib = <<>> THEN <<>>
    ELSE FolderItems(Head(lib), t) \o AllItems(Tail(lib), t)

\* lines 172-179: de-dupe by url, keep the first
RECURSIVE DedupByUrl(_, _)
DedupByUrl(its, seen) ==
    IF its = <<>> THEN <<>>
    ELSE IF Head(its).url \in seen THEN DedupByUrl(Tail(its), seen)
    ELSE <<Head(its)>> \o DedupByUrl(Tail(its), seen \cup {Head(its).url})

collect_urls_from_library(lib, t) == DedupByUrl(AllItems(lib, t), {})

\* _scrape_worker, lines 417-426: enumerate the library (which bootstraps
\* url.json where only url.txt is there) and build the work items
Collect ==
    /\ items' = collect_urls_from_library(library, now)
    /\ library' = [i \in DOMAIN library |->
                      [library[i] EXCEPT
                          !.json = _get_folder_urls(library[i], now).json]]
    /\ UNCHANGED <<storeVars, writeVars, progress_cb, item_idx, pc, outcome,
                   locals, change_status, invoked, results, calls, raised,
                   faulted, runs, ui, call>>

LinkChoices ==
    {<<>>, <<LibFap1>>, <<LibFap1, LibFap2>>, <<LibFap1, LibItch>>,
     <<<<32>> \o LibFap1, LibFap1, UrlM>>}

\* a url.txt with a commented-out link, a blank line, a line that is no
\* link, and links that come twice, once of them padded
MixedLines ==
    <<<<35>> \o LibFap1, EmptyStr, LibItch, UrlM, LibFap1,
      <<32>> \o LibItch, LibFap1>>

TxtChoices == LinkChoices \cup {MixedLines}

Folders(name, waiting) ==
    {Folder(name, waiting,
            Complete([BootData EXCEPT !.manual.links = ls]), FALSE, <<>>) :
        ls \in LinkChoices}
    \cup {Folder(name, waiting, Absent, TRUE, ls) : ls \in TxtChoices}
    \cup {Folder(name, waiting, Unreadable(EmptyDict), TRUE, <<LibFap1>>)}
    \cup {Folder(name, waiting,
                 Complete([BootData EXCEPT !.manual.links = <<LibFap1>>]),
                 TRUE, <<LibItch>>)}

Libraries ==
    {<<a, b>> : a \in Folders("d1", FALSE), b \in Folders("d2", TRUE)}

InitCollect ==
    /\ json = Absent
    /\ tmp = Absent
    /\ now = StartNow
    /\ lastOp = NoOp
    /\ repeat = FALSE
    /\ pre = Absent
    /\ readResult = NoRead
    /\ wpc = "idle"
    /\ pending = EmptyDict
    /\ NoScrape
    /\ runs = NoRuns
    /\ ui = NoUI
    /\ library \in Libraries
    /\ call = NoCall

NextCollect ==
    \/ Collect
    \/ Tick

SpecCollect == InitCollect /\ [][NextCollect]_vars

\* lines 180-184 of scrape_all: the record and the slot an item's
\* update_observations_latest call writes
SlotOf(item) == <<item.folder_path, source_from_url(normalize_url(item.url))>>

----------------------------------------------------------------------------
(* More properties of update_observations_latest *)

\* latest.last_update_iso of record c, empty when latest has none
LatestIso(c) == Get(Latest(c), "last_update_iso", EmptyStr)

\* C18: after an update_observations_latest that leaves every slot with an
\* empty timestamp, latest is empty, whatever it held before the call.
C18_NoDatedSlotNoLatest ==
    (lastOp.name = "update" /\ exists(pre) /\ Dated(json) = {}) =>
        Latest(json) = EmptyDict

\* C19: a slot whose timestamp is non-empty but does not parse as ISO-8601
\* is never the one update_observations_latest selects as latest.
C19_LatestParses ==
    (lastOp.name = "update" /\ exists(pre) /\ LatestIso(json) # EmptyStr) =>
        fromisoformat(LatestIso(json)) # Unparseable

\* C20: over any sequence of update_observations_latest calls on a record,
\* latest.last_update_iso never decreases.
C20_LatestNeverDecreases ==
    [][lastOp'.name = "update" => ~StrLess(LatestIso(json'), LatestIso(json))]_vars

----------------------------------------------------------------------------
(* _clean_title / update_title_from_raw (storage/game_folders.py) *)

\* does q consist of one or more groups "[...]" with a non-empty inside,
\* one right behind the other, and then only whitespace up to the end?
\* (the part (\[[^\]]+\])+\s*$ of the pattern; some says a group was read)
RECURSIVE GroupsToEnd(_, _)
GroupsToEnd(q, some) ==
    IF q # <<>> /\ q[1] = 91 /\ Find(q, 93, 2) > 2
    THEN GroupsToEnd(SubSeq(q, Find(q, 93, 2) + 1, Len(q)), TRUE)
    ELSE some /\ LStrip(q) = <<>>

\* re.sub(r"\s*(\[[^\]]+\])+\s*$", "", s): the text before the leftmost
\* position from which the pattern matches up to the end
RECURSIVE CutTrailingGroups(_, _)
CutTrailingGroups(s, i) ==
    IF i > Len(s) THEN s
    ELSE IF GroupsToEnd(LStrip(SubSeq(s, i, Len(s))), FALSE)
    THEN SubSeq(s, 1, i - 1)
    ELSE CutTrailingGroups(s, i + 1)

\* _clean_title
_clean_title(raw) ==
    IF raw = EmptyStr THEN EmptyStr
    ELSE Strip(CollapseSpaces(CutTrailingGroups(Strip(raw), 1)))

\* lines 417-423: the normalised manual links of the record
norm_links(data) ==
    LET links == Get(Get(data, "manual", EmptyDict), "links", <<>>)
    IN {normalize_url(links[i]) : i \in DOMAIN links} \ {EmptyStr}

\* lines 440-473: should_write
should_write(data, cleaned) ==
    LET existing == Strip(Get(data, "title", EmptyStr))
        game_id == Strip(Get(data, "game_id", EmptyStr))
        existing_clean == _clean_title(existing)
    IN \/ existing_clean = EmptyStr
       \/ game_id # EmptyStr /\ existing_clean = game_id
       \/ existing # existing_clean
       \/ /\ Len(cleaned) > Len(existing_clean)
          /\ \E i \in DOMAIN cleaned : cleaned[i] = 32

\* TitleWrites without the membership test of line 425
TitleWritesAnyUrl(c, scraped_url, raw_title) ==
    /\ exists(c)
    /\ _clean_title(raw_title) # EmptyStr
    /\ should_write(_load_url_json(c), _clean_title(raw_title))

\* does update_title_from_raw reach its write at line 480?
TitleWrites(c, scraped_url, raw_title) ==
    /\ exists(c)
    /\ normalize_url(scraped_url) \in norm_links(_load_url_json(c))
    /\ _clean_title(raw_title) # EmptyStr
    /\ should_write(_load_url_json(c), _clean_title(raw_title))

\* lines 478-480: the object handed to _write_url_json_atomic
TitleData(data, raw_title, t) ==
    Put(Put(data, "title", _clean_title(raw_title)),
        "updated_at", _now_iso_z(t))

\* update_title_from_raw: the content of url.json after the call
update_title_from_raw(c, scraped_url, raw_title, t) ==
    IF ~TitleWrites(c, scraped_url, raw_title) THEN c
    ELSE _write_url_json_atomic(TitleData(_load_url_json(c), raw_title, t))

\* a call of update_title_from_raw
UpdateTitle(scraped_url, raw_title) ==
    /\ json' = update_title_from_raw(json, scraped_url, raw_title, now)
    /\ lastOp' = Op("title", EmptyStr, raw_title, EmptyStr, <<scraped_url>>,
                    now, TitleWrites(json, scraped_url, raw_title))
    /\ repeat' = SameCall(lastOp, "title", EmptyStr, raw_title, EmptyStr,
                          <<scraped_url>>)
    /\ pre' = json
    /\ readResult' = NoRead
    /\ UNCHANGED <<concVars, call>>
    /\ UNCHANGED <<tmp, now, writeVars, scrapeVars>>

----------------------------------------------------------------------------
(* The three writers of url.json on one record                             *)

\* a ledger as a hand edit can leave it: out of order, one url twice
ShuffledLedger ==
    <<[url |-> UrlB, source |-> SrcF,
       first_seen |-> OldIso, last_seen |-> EdgeIso],
      [url |-> UrlA, source |-> EmptyStr,
       first_seen |-> OldIso, last_seen |-> EdgeIso],
      [url |-> PaddedB, source |-> SrcI,
       first_seen |-> EdgeIso, last_seen |-> EdgeIso]>>

\* a record that holds nothing but its manual links
BareData == [manual |-> [links |-> <<UrlM, UrlA>>]]

InitStoreFiles ==
    {Complete(SeenData), Complete([BootData EXCEPT !.discovered = ShuffledLedger]),
     Complete(BareData), Complete(EmptyDict), Unreadable(EmptyDict), Absent}

TitleT == <<84>>                         \* "T"
TitleTv == <<84, 32, 91, 49, 93>>        \* "T [1]"
TitleTu == <<84, 32, 117>>               \* "T u"
TitleTwoGroups == <<84, 32, 91, 49, 93, 32, 91, 77, 93>>    \* "T [1] [M]"
RawTitles == {EmptyStr, TitleTv, TitleTu, TitleTwoGroups}

StoreLinkLists == {<<>>, <<UrlA, PaddedB>>}

InitStore ==
    /\ json \in InitStoreFiles
    /\ tmp = Absent
    /\ now = StartNow
    /\ lastOp = NoOp
    /\ repeat = FALSE
    /\ pre = Absent
    /\ readResult = NoRead
    /\ wpc = "idle"
    /\ pending = EmptyDict
    /\ NoConc
    /\ NoScrape

NextStore ==
    \/ \E l \in StoreLinkLists : MergeDiscoveredLinks(l, SrcF)
    \/ \E s \in Sources : UpdateObservation(s, <<49>>, EdgeIso)
    \/ \E u \in {UrlM, UrlA}, r \in RawTitles : UpdateTitle(u, r)
    \/ Tick

SpecStore == InitStore /\ [][NextStore]_vars

\* the last call was one of the three writers and reached its write
Wrote(name) == lastOp.name = name /\ lastOp.wrote

StoreWrote == Wrote("merge") \/ Wrote("update") \/ Wrote("title")

\* manual.links of a record file as _load_url_json hands it to the callers
ManualLinks(c) ==
    Get(Get(_load_url_json(c), "manual", EmptyDict), "links", <<>>)

\* the record has game_id, status, manual.links, discovered, observations
\* and latest
WellFormed(c) ==
    /\ c.kind = "json"
    /\ {"game_id", "status", "manual", "discovered", "observations",
        "latest"} \subseteq DOMAIN c.data
    /\ "links" \in DOMAIN c.data["manual"]

\* C21: after a write by merge_discovered_links, update_observations_latest
\* or update_title_from_raw the record holds game_id, status, manual.links,
\* discovered, observations and latest, whatever the file held before.
C21_WrittenRecordWellFormed == StoreWrote => WellFormed(json)

\* C22: merge_discovered_links, update_observations_latest and
\* update_title_from_raw never change manual.links: after a write by one of
\* them the list equals the one the file held before, element by element.
C22_ManualLinksUntouched == StoreWrote => ManualLinks(json) = ManualLinks(pre)

\* a merge wrote a record whose two manual links are not in sorted order
C22_Witness ==
    /\ Wrote("merge")
    /\ ManualLinks(pre) = <<UrlM, UrlA>>
    /\ Ledger(json) # Ledger(pre)

\* C23: merge_discovered_links and update_observations_latest called on a
\* folder without url.json do nothing: no url.json and no url.json.tmp is
\* created and nothing is written.
C23_NoRecordNoOp ==
    (lastOp.name \in {"merge", "update"} /\ pre = Absent) =>
        /\ json = Absent
        /\ tmp = Absent
        /\ ~lastOp.wrote

\* a merge with links to record was called where there is no url.json
C23_Witness ==
    /\ lastOp.name = "merge"
    /\ Incoming(lastOp.links) # {}
    /\ pre = Absent
    /\ json = Absent

\* a line of url.txt that is an http(s) link: not blank, not a "#" comment,
\* and starting with http:// or https://
IsUrlLine(line) ==
    LET l == Strip(line)
    IN /\ l # EmptyStr
       /\ l[1] # 35
       /\ \/ StartsWith(LowerStr(l), Http \o <<47, 47>>)
          \/ StartsWith(LowerStr(l), Https \o <<47, 47>>)

\* the first line of url.txt that holds the link u
FirstLine(lines, u) ==
    CHOOSE j \in DOMAIN lines :
        /\ Strip(lines[j]) = u
        /\ \A k \in DOMAIN lines : Strip(lines[k]) = u => j <= k

\* c is the record the claim expects for a url.txt with these lines
Bootstrapped(lines, c) ==
    /\ c.kind = "json"
    /\ LET ml == c.data.manual.links
       IN /\ \A k \in DOMAIN ml :
                \E j \in DOMAIN lines :
                    IsUrlLine(lines[j]) /\ Strip(lines[j]) = ml[k]
          /\ \A j \in DOMAIN lines :
                IsUrlLine(lines[j]) =>
                    \E k \in DOMAIN ml : ml[k] = Strip(lines[j])
          /\ \A k1, k2 \in DOMAIN ml :
                k1 < k2 => /\ ml[k1] # ml[k2]
                           /\ FirstLine(lines, ml[k1]) < FirstLine(lines, ml[k2])
          /\ c.data.game_id = IF ml = <<>> THEN EmptyStr
                              ELSE game_id_from_url(ml[1])
    /\ c.data.discovered = <<>>
    /\ c.data.observations = <<>>
    /\ c.data.latest = EmptyDict

\* C24: when the library is enumerated, a folder with url.txt and no
\* url.json gets a url.json whose manual.links are the http(s) lines of
\* url.txt, each once, in the order of their first occurrence; game_id comes
\* from the first of them; discovered, observations and latest are empty.
C24_BootstrapFromTxt ==
    [][\A i \in DOMAIN library :
          (library[i].json = Absent /\ library[i].txt.exists /\ now' = now)
              => Bootstrapped(library[i].txt.lines, library'[i].json)]_vars

\* a url.txt with comment, blank, non-link and repeated lines was bootstrapped
C24_Witness ==
    \E i \in DOMAIN library :
        /\ library[i].txt.exists
        /\ library[i].txt.lines = MixedLines
        /\ library[i].json.kind = "json"
        /\ library[i].json.data.manual.links = <<LibItch, LibFap1>>

----------------------------------------------------------------------------
(* Helper functions applied on their own                                   *)
(* (classify_recency, split_bracket_version)                               *)

\* ages, in days, of the timestamps handed to classify_recency on StartNow
Ages == {-1, 0, RECENT_DAYS - 1, RECENT_DAYS, RECENT_DAYS + 1,
         ABANDONED_DAYS - 2, ABANDONED_DAYS - 1, ABANDONED_DAYS,
         ABANDONED_DAYS + 1}

RecencyStamps ==
    {_now_iso_z(StartNow - d) : d \in Ages} \cup {EmptyStr, BadIso}

TitleEmptyGroup == <<91, 93, 32, 120, 32, 91, 32, 118, 32, 93, 45>>    \* "[] x [ v ]-"
TitleNested == <<91, 91, 97, 93, 32, 32, 98, 91>>    \* "[[a]  b["
TitleDashes == <<32, 45, 32, 84, 32, 91, 118, 49, 93, 9, 117, 32, 45>>    \* " - T [v1]\tu -"
TitleBlankGroup == <<91, 32, 93, 84>>    \* "[ ]T"
TitleOpenOnly == <<84, 32, 91, 49>>    \* "T [1"
TitleGroupFirst == <<91, 50, 93, 32, 84, 32, 32, 117>>    \* "[2] T  u"

TitleGroupInside == <<84, 91, 49, 93, 117, 32, 91, 50, 93>>    \* "T[1]u [2]"
TitleGroupOnly == <<32, 91, 120, 93, 32>>    \* " [x] "
TitleCloseOnly == <<84, 32, 93, 32, 117>>    \* "T ] u"

SplitTitles ==
    {EmptyStr, TitleT, TitleTv, TitleTu, TitleTwoGroups, TitleEmptyGroup, TitleNested,
     TitleDashes, TitleBlankGroup, TitleOpenOnly, TitleGroupFirst,
     TitleGroupInside, TitleGroupOnly, TitleCloseOnly}

CallOf(fn, a) == [NoCall EXCEPT !.fn = fn, !.a = a]

InitPure ==
    /\ json = Absent
    /\ tmp = Absent
    /\ now = StartNow
    /\ lastOp = NoOp
    /\ repeat = FALSE
    /\ pre = Absent
    /\ readResult = NoRead
    /\ wpc = "idle"
    /\ pending = EmptyDict
    /\ NoScrape
    /\ runs = NoRuns
    /\ ui = NoUI
    /\ library = <<>>
    /\ call \in {CallOf("classify_recency", a) : a \in RecencyStamps}
                \cup {CallOf("split_bracket_version", a) : a \in SplitTitles}

\* classify_recency(updated_iso) is called; _now_utc() reads the clock
ClassifyRecency ==
    /\ call.fn = "classify_recency"
    /\ ~call.done
    /\ call' = [call EXCEPT !.label = classify_recency(call.a, now),
                            !.t = now, !.done = TRUE]
    /\ UNCHANGED <<storeVars, writeVars, scrapeVars, concVars>>

\* split_bracket_version(title) is called
SplitBracketVersion ==
    /\ call.fn = "split_bracket_version"
    /\ ~call.done
    /\ call' = [call EXCEPT !.version = split_bracket_version(call.a)[1],
                            !.title = split_bracket_version(call.a)[2],
                            !.t = now, !.done = TRUE]
    /\ UNCHANGED <<storeVars, writeVars, scrapeVars, concVars>>

NextPure ==
    \/ ClassifyRecency
    \/ SplitBracketVersion
    \/ Tick

SpecPure == InitPure /\ [][NextPure]_vars

\* the function was applied
Applied(fn) == call.fn = fn /\ call.done

\* whole days between the clock at the call and the timestamp
AgeDays == call.t - fromisoformat(call.a)

\* C25: classify_recency returns Recent when age_days <= 21, Abandoned when
\* age_days >= 365 and Old in between; an empty or unparseable timestamp
\* gives Old.
C25_RecencyBands ==
    Applied("classify_recency") =>
        IF fromisoformat(call.a) = Unparseable THEN call.label = "Old"
        ELSE /\ AgeDays <= 21 => call.label = "Recent"
             /\ AgeDays >= 365 => call.label = "Abandoned"
             /\ (21 < AgeDays /\ AgeDays < 365) => call.label = "Old"

\* a timestamp exactly 21 days old was classified
C25_Witness ==
    /\ Applied("classify_recency")
    /\ fromisoformat(call.a) # Unparseable
    /\ AgeDays = 21
    /\ call.label = "Recent"

\* s[o..c] is a bracket group: "[", then characters other than "]", then "]"
GroupAt(s, o, c) ==
    /\ o < c
    /\ s[o] = 91
    /\ s[c] = 93
    /\ \A k \in (o + 1)..(c - 1) : s[k] # 93

\* the bracket groups of s, and those with something between the brackets
Groups(s) == {g \in (DOMAIN s) \X (DOMAIN s) : GroupAt(s, g[1], g[2])}

FilledGroups(s) == {g \in Groups(s) : g[2] > g[1] + 1}

\* the trimmed inside of the group of gs that opens first, empty if gs is
InsideOfFirst(s, gs) ==
    IF gs = {} THEN EmptyStr
    ELSE LET g == CHOOSE x \in gs : \A y \in gs : x[1] <= y[1]
         IN Strip(SubSeq(s, g[1] + 1, g[2] - 1))

\* the characters of s from position i on that lie in no bracket group
RECURSIVE Outside(_, _)
Outside(s, i) ==
    IF i > Len(s) THEN <<>>
    ELSE IF \E g \in Groups(s) : g[1] <= i /\ i <= g[2]
    THEN Outside(s, i + 1)
    ELSE <<s[i]>> \o Outside(s, i + 1)

\* the clean title the claim describes: every bracket group removed,
\* whitespace runs collapsed, separators and whitespace trimmed at both ends
CleanExpected(s) == StripChars(CollapseSpaces(Outside(s, 1)), Separators)

SlotNames(c) == {Slots(c)[i].source : i \in DOMAIN Slots(c)}

\* C27: read_observation returns ("", "") when url.json is absent, when the
\* record has no observations container, or when the source has no slot.
C27_ReadOfNothingIsEmpty ==
    (/\ readResult.fresh
     /\ \/ json = Absent
        \/ "observations" \notin DOMAIN _load_url_json(json)
        \/ readResult.source \notin SlotNames(json))
        => readResult.value = <<EmptyStr, EmptyStr>>

\* a source without a slot was read from a record that holds another
\* source's dated slot
C27_Witness ==
    /\ readResult.fresh
    /\ Dated(json) # {}
    /\ readResult.source \notin SlotNames(json)
    /\ readResult.value = <<EmptyStr, EmptyStr>>

\* the urls of the last call's links, normalised, without the empty one
Given == Normalized(lastOp.links) \ {EmptyStr}

\* the manual links of the record the last call found
ManualBefore == manual_set(_load_url_json(pre))

\* the ledger now holds u as inserted by the last call
InsertedNow(u) ==
    /\ u \in LedgerUrls(json)
    /\ EntryFor(json, u).first_seen = _now_iso_z(lastOp.at)
    /\ EntryFor(json, u).last_seen = _now_iso_z(lastOp.at)
    /\ EntryFor(json, u).source = lastOp.source

\* C28 as stated: a merge bumps last_seen of every incoming url already in
\* the ledger, leaving first_seen alone and source alone unless it was
\* empty, and inserts every incoming url that is in neither the ledger nor
\* manual.links with first_seen = last_seen = now and the call's source.
C28_ReobservedIsBumped ==
    (lastOp.name = "merge" /\ exists(pre)) =>
        \A u \in Given :
            /\ u \in LedgerUrls(pre) =>
                  /\ u \in LedgerUrls(json)
                  /\ EntryFor(json, u).last_seen = _now_iso_z(lastOp.at)
                  /\ EntryFor(json, u).first_seen = EntryFor(pre, u).first_seen
                  /\ EntryFor(pre, u).source # EmptyStr =>
                        EntryFor(json, u).source = EntryFor(pre, u).source
            /\ (u \notin LedgerUrls(pre) /\ u \notin ManualBefore) =>
                  InsertedNow(u)

\* C28 amended: the bump applies to the incoming urls that are in the ledger
\* and not in manual.links; an empty source becomes the call's source. An
\* incoming url that is in manual.links is skipped, and its ledger entry, if
\* it has one, is not touched by the loop.
C28_ReobservedNonManualIsBumped ==
    (lastOp.name = "merge" /\ exists(pre)) =>
        \A u \in Given \ ManualBefore :
            /\ u \in LedgerUrls(pre) =>
                  /\ u \in LedgerUrls(json)
                  /\ EntryFor(json, u).last_seen = _now_iso_z(lastOp.at)
                  /\ EntryFor(json, u).first_seen = EntryFor(pre, u).first_seen
                  /\ EntryFor(json, u).source =
                        IF EntryFor(pre, u).source = EmptyStr
                        THEN lastOp.source ELSE EntryFor(pre, u).source
            /\ u \notin LedgerUrls(pre) => InsertedNow(u)

\* one call bumped an entry that had no source and inserted another url
C28_Witness ==
    /\ lastOp.name = "merge" /\ exists(pre)
    /\ \E u \in Given \ ManualBefore :
          /\ u \in LedgerUrls(pre)
          /\ EntryFor(pre, u).source = EmptyStr
          /\ EntryFor(json, u).source = lastOp.source
          /\ lastOp.source # EmptyStr
          /\ EntryFor(json, u).last_seen # EntryFor(pre, u).last_seen
          /\ EntryFor(json, u).first_seen # EntryFor(json, u).last_seen
    /\ \E u \in Given \ ManualBefore : u \notin LedgerUrls(pre)

\* C29: a merge that inserts nothing, bumps nothing (no incoming url outside
\* manual.links) and prunes nothing (no entry past the retention window)
\* performs no write: url.json, updated_at included, is as it was.
C29_NoNetChangeNoWrite ==
    (/\ lastOp.name = "merge" /\ exists(pre)
     /\ Given \subseteq ManualBefore
     /\ \A i \in DOMAIN Ledger(pre) : ~Expired(Ledger(pre)[i], lastOp.at))
        => /\ ~lastOp.wrote
           /\ json = pre
           /\ tmp = Absent

\* a merge whose links are all manual links met a ledger with nothing to
\* prune and left the record alone
C29_Witness ==
    /\ lastOp.name = "merge" /\ exists(pre)
    /\ Given # {}
    /\ Given \subseteq ManualBefore
    /\ Ledger(pre) # <<>>
    /\ \A i \in DOMAIN Ledger(pre) : ~Expired(Ledger(pre)[i], lastOp.at)
    /\ json = pre

\* the ledger of c is in ascending url order with one entry per
\* normalised url
SortedUnique(c) ==
    \A i, j \in DOMAIN Ledger(c) :
        i < j => /\ StrLess(Ledger(c)[i].url, Ledger(c)[j].url)
                 /\ normalize_url(Ledger(c)[i].url)
                        # normalize_url(Ledger(c)[j].url)

\* C30: the ledger a merge_discovered_links write leaves is sorted by url
\* with at most one entry per normalised url, and a later
\* update_observations_latest or update_title_from_raw call keeps it so.
C30_LedgerSortedUnique ==
    [][/\ (lastOp'.name = "merge" /\ lastOp'.wrote) => SortedUnique(json')
       /\ (lastOp'.name \in {"update", "title"} /\ SortedUnique(json))
              => SortedUnique(json')]_vars

\* an update_title_from_raw write on a two-entry ledger that a merge made
\* out of one that was out of order and held a url twice
C30_Witness ==
    /\ Wrote("title")
    /\ Len(Ledger(json)) >= 2
    /\ \E i \in DOMAIN Ledger(json) :
          /\ Ledger(json)[i].url = UrlB
          /\ Ledger(json)[i].last_seen \notin {OldIso, EdgeIso}
          /\ Ledger(json)[i].source = SrcI
    /\ SortedUnique(json)

----------------------------------------------------------------------------
(* The two persistence calls of one entry *)

\* the loop body has passed lines 166-187 for an entry that has a folder
\* and was scraped without error
Persisted ==
    /\ pc = "emit"
    /\ outcome.err = ""
    /\ items[item_idx].folder_path # ""

\* C31: on the success path update_observations_latest is called whether or
\* not merge_discovered_links raised, and when one of the two raises the
\* record still shows what the other did: the source's slot holds the
\* scraped version and timestamp, the ledger holds the scraped links.
C31_PersistenceCallsIndependent ==
    Persisted =>
        /\ invoked = <<"merge", "update">>
        /\ ("update" \notin faulted /\ exists(pre)) =>
              read_observation(json, locals.src)
                  = <<locals.version, locals.updated_iso>>
        /\ ("merge" \notin faulted /\ exists(pre)) =>
              (Normalized(locals.links) \ {EmptyStr})
                  \ manual_set(_load_url_json(pre)) \subseteq LedgerUrls(json)

\* merge_discovered_links raised and the observation was recorded all the
\* same
C31_Witness ==
    /\ Persisted
    /\ faulted = {"merge"}
    /\ exists(pre)
    /\ locals.links # <<>>
    /\ locals.updated_iso # EmptyStr
    /\ read_observation(json, locals.src) # read_observation(pre, locals.src)
    /\ Ledger(json) = Ledger(pre)

----------------------------------------------------------------------------
(* update_title_from_raw *)

\* the arguments of the last update_title_from_raw call
ScrapedUrl == lastOp.links[1]
RawTitle == lastOp.version

\* the title of a record file as the callers load it
TitleOf(c) == Get(_load_url_json(c), "title", EmptyStr)

\* C32: update_title_from_raw writes nothing when url.json is absent or the
\* normalised scraped url is not one of the record's manual links: the
\* file, title and updated_at included, is as it was.
C32_TitleGuard ==
    (/\ lastOp.name = "title"
     /\ \/ pre = Absent
        \/ normalize_url(ScrapedUrl) \notin ManualBefore)
        => /\ ~lastOp.wrote
           /\ json = pre
           /\ tmp = Absent

\* a title that would be written for a manual link was offered for a url
\* that is none, on a record without a title
C32_Witness ==
    /\ lastOp.name = "title"
    /\ exists(pre)
    /\ ManualBefore # {}
    /\ normalize_url(ScrapedUrl) \notin ManualBefore
    /\ _clean_title(RawTitle) # EmptyStr
    /\ TitleOf(pre) = EmptyStr
    /\ json = pre

\* the string ends with a bracket group
EndsWithGroup(t) == \E o \in DOMAIN t : GroupAt(t, o, Len(t))

\* C33: the title update_title_from_raw stores has every trailing bracket
\* group of the raw title stripped, so it never ends with a bracket group.
C33_StoredTitleHasNoTrailingGroup ==
    Wrote("title") => ~EndsWithGroup(TitleOf(json))

----------------------------------------------------------------------------
(* url.txt next to an existing url.json *)

\* C34: enumerating the library never rewrites a url.json that exists,
\* whatever url.txt holds: bootstrap happens only where there is no url.json.
C34_ExistingRecordNotBootstrapped ==
    [][\A i \in DOMAIN library :
          exists(library[i].json) => library'[i].json = library[i].json]_vars

\* the library was enumerated with a folder whose url.txt names another
\* link than its url.json: the work item is the record's link and the
\* record is as it was
C34_Witness ==
    \E i \in DOMAIN library :
        /\ library[i].txt.exists
        /\ library[i].txt.lines = <<LibItch>>
        /\ library[i].json.kind = "json"
        /\ library[i].json.data.manual.links = <<LibFap1>>
        /\ \E k \in DOMAIN items :
              /\ items[k].url = LibFap1
              /\ items[k].folder_path = library[i].folder

----------------------------------------------------------------------------
(* latest and the order of the slots *)

LatestSource(c) == Get(Latest(c), "source", EmptyStr)

\* C35: latest.source after update_observations_latest depends on the
\* observations map alone: when two calls in a row leave the same map, they
\* leave the same latest.source, ties on the greatest timestamp included.
C35_LatestSourceFromMapAlone ==
    [][(/\ lastOp.name = "update" /\ exists(pre)
        /\ lastOp'.name = "update"
        /\ Slots(json') = Slots(json))
          => LatestSource(json') = LatestSource(json)]_vars

----------------------------------------------------------------------------
(* What update_observations_latest leaves alone *)

\* the slot of source s in the record file c
SlotFor(c, s) == Slots(c)[CHOOSE i \in DOMAIN Slots(c) : Slots(c)[i].source = s]

\* C36: update_observations_latest for a source on a readable record leaves
\* every other source's slot, the discovered ledger, game_id, status and
\* title as they were.
C36_UpdateFrame ==
    (lastOp.name = "update" /\ pre.kind = "json") =>
        /\ SlotNames(json) = SlotNames(pre) \cup {lastOp.source}
        /\ \A s \in SlotNames(pre) \ {lastOp.source} :
              SlotFor(json, s) = SlotFor(pre, s)
        /\ Ledger(json) = Ledger(pre)
        /\ Get(json.data, "game_id", EmptyStr) = Get(pre.data, "game_id", EmptyStr)
        /\ Get(json.data, "status", "") = Get(pre.data, "status", "")
        /\ TitleOf(json) = TitleOf(pre)

\* a source got its first slot in a record that holds another source's
\* slot, a ledger, a title, a game_id and a status
C36_Witness ==
    /\ lastOp.name = "update" /\ pre.kind = "json"
    /\ lastOp.source \notin SlotNames(pre)
    /\ SlotNames(pre) # {}
    /\ SlotNames(json) = Sources
    /\ Ledger(pre) # <<>>
    /\ TitleOf(pre) # EmptyStr
    /\ Get(pre.data, "game_id", EmptyStr) # EmptyStr
    /\ Get(pre.data, "status", "") # ""

----------------------------------------------------------------------------
(* Re-observation and pruning in one merge *)

\* C37: every incoming url of a merge_discovered_links call that is not a
\* manual link is in the ledger after the call, however old its last_seen
\* was: the bump comes before the prune.
C37_SeenNowNotPruned ==
    (lastOp.name = "merge" /\ exists(pre)) =>
        (Given \ ManualBefore) \subseteq LedgerUrls(json)

\* an entry past the retention window was re-observed and is still there,
\* seen now
C37_Witness ==
    /\ lastOp.name = "merge" /\ exists(pre)
    /\ \E u \in Given \ ManualBefore :
          /\ u \in LedgerUrls(pre)
          /\ Expired(EntryFor(pre, u), lastOp.at)
          /\ u \in LedgerUrls(json)
          /\ EntryFor(json, u).last_seen = _now_iso_z(lastOp.at)

----------------------------------------------------------------------------
(* update_title_from_raw called twice *)

\* C38: the second of two update_title_from_raw calls in a row with the
\* same scraped_url and raw_title writes nothing: the record, title and
\* updated_at included, is as the first call left it.
C38_SecondTitleCallWritesNothing ==
    (lastOp.name = "title" /\ repeat) => (~lastOp.wrote /\ json = pre)

====
